---- MODULE Spec2Model ----
(***************************************************************************)
(* Model of the sniper job scheduler and acquisition engine of             *)
(* backpack-bot (packages/server/src/services/sniper.ts).                  *)
(*                                                                         *)
(* The source tree holds two revisions of the service: the one that reads  *)
(* the recreation.gov credentials from the environment (services/sniper.ts)*)
(* and the one that keeps a per-job credentials table and exports          *)
(* supplyCredentials (unnamed/part_002, the revision routes/sniper.ts      *)
(* imports from).  The variable build selects the revision; it is chosen   *)
(* in Init and never changes.                                              *)
(*                                                                         *)
(* Every async function is cut at its awaits: one action is the code that  *)
(* runs between two awaits.  Time is a discrete clock; one tick is one     *)
(* POLL_INTERVAL_MS, and the other durations are scaled to a few ticks.    *)
(* Timeouts are the runtime's: setTimeout keeps its delay in a 32-bit      *)
(* signed integer and runs a longer one after 1 ms (TIMEOUT_MAX).          *)
(*                                                                         *)
(* Scope: requests are served once loadAndScheduleJobs has finished; each  *)
(* job id sees at most one cancelJob/deleteJob call and at most one        *)
(* supplyCredentials call; saveJobs writes the job table as it is when the *)
(* write settles, and may fail; the service is followed until more than    *)
(* MaxRuns engine runs have started.                                       *)
(***************************************************************************)
EXTENDS Integers, Sequences, FiniteSets, TLC

\* ---------------------------------------------------------------- bounds
MaxTime == 4
MaxJobs == 2
MaxStored == 1
MaxRuns == 1
MaxNight == 3

\* ------------------------------------------------------ program constants
\* sniper.ts:71-73, in clock ticks
PRE_WARM_LEAD_MS == 2
POLL_INTERVAL_MS == 1
MAX_WATCH_DURATION_MS == 2

\* The longest delay the runtime's setTimeout honours (2^31 - 1 ms, a 32-bit
\* signed integer), in clock ticks.  A longer delay is replaced by 1 ms.
TIMEOUT_MAX == 3

\* ------------------------------------------------------------ value sets
Nights == 1..MaxNight
None == <<>>

\* DateRange: <<startDate, endDate>>, dates as day numbers
RangeA == <<1, 2>>
RangeB == <<2, 4>>
RangeC == <<1, 3>>
ValidRanges == {r \in (1..MaxNight) \X (2..(MaxNight + 1)) : r[1] < r[2]}

\* desiredDateRanges of the creation requests (routes/sniper.ts:23-45 admits
\* only non-empty lists of ranges with endDate > startDate)
RequestRanges == { <<RangeA>>, <<RangeB, RangeC, RangeA>> }
Windows == {-1, 1, 3}
\* windowOpensAt so far ahead that the delay to the pre-warm time exceeds
\* TIMEOUT_MAX
FarWindows == {6}

SniperStatus == {"pending", "pre-warming", "watching", "booking",
                 "in-cart", "failed", "cancelled"}
Terminal == {"in-cart", "failed", "cancelled"}

\* What the availability endpoint answers: res.ok, whether the division is
\* in payload.availability, and date_availability as a map from some of the
\* nights to the remaining capacity.
DateAvailability == UNION { [S -> 0..1] : S \in SUBSET Nights }
Responses == [ok : BOOLEAN, division : BOOLEAN, avail : DateAvailability]

\* -------------------------------------------------------- pure functions
\* expandRange: the nights startDate .. endDate - 1, in order
expandRange(range) ==
  [i \in 1..(IF range[2] > range[1] THEN range[2] - range[1] ELSE 0)
     |-> range[1] + i - 1]

Remaining(avail, d) == IF d \in DOMAIN avail THEN avail[d] ELSE 0

\* a range passes as soon as one of its nights has capacity
allAvailableSome(avail, range) ==
  \E i \in DOMAIN expandRange(range) : Remaining(avail, expandRange(range)[i]) > 0

\* nights.every((d) => (availByDate.get(d) ?? 0) > 0)
allAvailable(avail, range) ==
  \A i \in DOMAIN expandRange(range) : Remaining(avail, expandRange(range)[i]) > 0

\* the ranges are gone through from the end of the list
RECURSIVE lastAvailable(_, _, _)
lastAvailable(avail, ranges, i) ==
  IF i > Len(ranges) THEN 0
  ELSE LET rest == lastAvailable(avail, ranges, i + 1)
       IN IF rest # 0 THEN rest
          ELSE IF allAvailable(avail, ranges[i]) THEN i ELSE 0

\* the loop over the ranges in priority order, from index i on
RECURSIVE firstAvailable(_, _, _)
firstAvailable(avail, ranges, i) ==
  IF i > Len(ranges) THEN 0
  ELSE IF allAvailable(avail, ranges[i]) THEN i
  ELSE firstAvailable(avail, ranges, i + 1)

\* checkAvailability after the HTTP status check: the index of the range it
\* returns, 0 for null
checkAvailability(resp, ranges) ==
  IF ~resp.division THEN 0 ELSE firstAvailable(resp.avail, ranges, 1)

\* ------------------------------------------------------------------ state
VARIABLES
  now,            \* Date.now(), in ticks
  build,          \* "env": services/sniper.ts, "perjob": unnamed/part_002
  envCreds,       \* RECGOV_EMAIL and RECGOV_PASSWORD are set (build "env")
  objs,           \* the SniperJob objects ever allocated (the heap)
  jobs,           \* const jobs: id -> object, 0 when the id is not in the map
  timers,         \* const timers: id -> the setTimeout handle, 0 when absent
  timeouts,       \* the timeouts scheduleJob created with setTimeout, by handle
  browsers,       \* const browsers: id -> session, 0 when absent
  abortControllers, \* const abortControllers: id -> run owning the controller
  credentials,    \* const credentials (part_002): id -> held or not
  disk,           \* sniper-jobs.json: id -> saved job record, None when absent
  sessions,       \* the browsers ever launched
  runs,           \* the runSniperJob invocations that got past the credentials
  createCall,     \* createJob calls: id -> [pc, obj]
  cancelCall,     \* cancelJob / deleteJob calls: id -> [pc, obj, del] and, for
                  \* the claims, the status and the run the call found
  loaded,         \* loadAndScheduleJobs: "no", "saving", "done"
  createResult,   \* what createJob broadcast and returned: id -> snapshot
  query,          \* the last checkAvailability call made on its own
  supplied,       \* supplyCredentials was called: id -> BOOLEAN
  subscribers,    \* const subscribers: the callbacks, in insertion order
  received,       \* callback -> the snapshots it was called with, in order
  updates,        \* the updateJob calls made with subscribers present
  post,           \* a request to the creation or deletion route and its response
  share,          \* the objects getJob, getJobs, createJob and notify hand out
  writes          \* the saveJobs calls in flight, by the job whose step issued them

vars == <<now, build, envCreds, objs, jobs, timers, timeouts, browsers, abortControllers,
          credentials, disk, sessions, runs, createCall, cancelCall, loaded,
          createResult, query, supplied, subscribers, received, updates, post, share, writes>>

\* the SSE side of the service, which no step of the engine or the API reads
feed == <<subscribers, received, updates>>

JobIds == 1..MaxJobs

\* The model follows each job through its first MaxRuns engine runs: the
\* state in which a further run has started is reached, and what the service
\* does from there is not explored.
WithinRuns ==
  IF Len(runs) <= MaxRuns THEN TRUE
  ELSE \A id \in JobIds :
         Cardinality({r \in DOMAIN runs : objs[runs[r].obj].id = id}) <= MaxRuns

\* The part of the state the service's code reads and writes, as one value:
\* a handler is a function from this value to the value it leaves.
Cur == [objs |-> objs, jobs |-> jobs, timers |-> timers, timeouts |-> timeouts,
        browsers |-> browsers,
        acs |-> abortControllers, credentials |-> credentials, disk |-> disk,
        sessions |-> sessions, runs |-> runs]

Commit(w) ==
  /\ objs' = w.objs
  /\ jobs' = w.jobs
  /\ timers' = w.timers
  /\ timeouts' = w.timeouts
  /\ browsers' = w.browsers
  /\ abortControllers' = w.acs
  /\ credentials' = w.credentials
  /\ disk' = w.disk
  /\ sessions' = w.sessions
  /\ runs' = w.runs

JobId(w, o) == w.objs[o].id

\* updateJob(job, {status, message})
updateJob(w, o, status, message) ==
  [w EXCEPT !.objs[o].status = status, !.objs[o].message = message]

\* updateJob(job, {message})
updateMessage(w, o, message) == [w EXCEPT !.objs[o].message = message]

\* saveJobs once its write has completed: the file holds every job of the map
saveJobs(w) ==
  [w EXCEPT !.disk = [id \in JobIds |->
                        IF w.jobs[id] = 0 THEN None ELSE w.objs[w.jobs[id]]]]

\* { ...job } as far as the claims read it
snapshot(w, o) ==
  [status |-> w.objs[o].status, attempts |-> w.objs[o].attempts,
   bookedRange |-> w.objs[o].bookedRange]

HasCredentials(w, id) == IF build = "env" THEN envCreds ELSE w.credentials[id]

NewRun(w, o) ==
  [obj |-> o, pc |-> "save_prewarm", aborted |-> FALSE, page |-> 0,
   found |-> 0, target |-> 0, fb |-> 0, deadline |-> 0, wake |-> 0,
   armed |-> FALSE, last |-> "none", polls |-> 0,
   seen |-> [i \in DOMAIN w.objs[o].ranges |-> "unknown"],
   tried |-> [i \in DOMAIN w.objs[o].ranges |-> "none"]]

\* runSniperJob up to its first await
runSniperJob(w, o) ==
  IF ~HasCredentials(w, JobId(w, o))
  THEN IF build = "env"
       THEN updateJob(w, o, "failed", "credentials-required")
       ELSE updateMessage(w, o, "cannot-start")
  ELSE LET r == Len(w.runs) + 1
           w1 == [w EXCEPT !.runs = Append(@, NewRun(w, o)),
                           !.acs[JobId(w, o)] = r]
       IN updateJob(w1, o, "pre-warming", "launching")

\* clearTimeout(h): a timeout that has not fired will not fire
clearTimeout(w, h) ==
  IF h # 0 THEN [w EXCEPT !.timeouts[h].live = FALSE] ELSE w

\* the delay a timeout created by setTimeout(callback, ms) runs for: ms, or
\* 1 ms (less than a tick) when ms does not fit the runtime's 32-bit delay
timerDelay(ms) == IF ms > TIMEOUT_MAX THEN 0 ELSE ms

\* setTimeout(() => { timers.delete(job.id); runSniperJob(job) }, delay) and
\* timers.set(job.id, timer) (sniper.ts:283-287)
setTimeout(w, o, delay) ==
  LET h == Len(w.timeouts) + 1
  IN [w EXCEPT !.timeouts = Append(@, [live |-> TRUE, fired |-> FALSE,
                                       due |-> now + timerDelay(delay), obj |-> o]),
               !.timers[JobId(w, o)] = h]

\* scheduleJob
scheduleJob(w, o) ==
  LET id == JobId(w, o)
      w1 == clearTimeout(w, w.timers[id])
      preWarmTime == w.objs[o].window - PRE_WARM_LEAD_MS
      delayToPreWarm == IF preWarmTime - now > 0 THEN preWarmTime - now ELSE 0
  IN IF delayToPreWarm > 0
     THEN setTimeout(w1, o, delayToPreWarm)
     ELSE runSniperJob(w1, o)

\* ------------------------------------------------------------ the engine
\* browser.close() is called on session b
closeBrowser(w, b) ==
  [w EXCEPT !.sessions[b].open = FALSE, !.sessions[b].closeCalls = @ + 1]

\* finally { ... } up to its await (sniper.ts:481-496); the locals of the try
\* block are out of scope
finallyBlock(w, r) ==
  LET o == w.runs[r].obj
      id == JobId(w, o)
      w1 == [w EXCEPT !.acs[id] = 0,
                      !.runs[r] = [NewRun(w, o) EXCEPT !.pc = w.runs[r].pc,
                                                       !.aborted = w.runs[r].aborted,
                                                       !.page = w.runs[r].page,
                                                       !.polls = w.runs[r].polls]]
      b == w1.browsers[id]
  IN IF w1.objs[o].status # "in-cart" /\ b # 0
     THEN [closeBrowser(w1, b) EXCEPT !.runs[r].pc = "finally_close"]
     ELSE [w1 EXCEPT !.runs[r].pc = "done"]

\* catch (err) { ... } up to its await: the message of the job is
\* `Sniper failed: ${err.message}`, the text of whatever was thrown
\* (sniper.ts:473-480)
catchMessage(w, r, msg) ==
  IF w.runs[r].aborted
  THEN finallyBlock(w, r)
  ELSE [updateJob(w, w.runs[r].obj, "failed", msg)
          EXCEPT !.runs[r].pc = "save_catch"]

\* the catch block for an error whose text says nothing of the credentials
catchBlock(w, r) == catchMessage(w, r, "sniper-failed")

\* sleep(ms, signal): the abort listener only ever fires when the signal is
\* not yet aborted at the call (sniper.ts:1046-1058)
sleep(w, r, ms, pc) ==
  [w EXCEPT !.runs[r].pc = pc, !.runs[r].wake = now + timerDelay(ms),
            !.runs[r].armed = ~w.runs[r].aborted]

\* after the while loop (sniper.ts:406-422)
afterWatch(w, r) ==
  LET rr == w.runs[r]
      w1 == [w EXCEPT !.runs[r].wake = 0, !.runs[r].armed = FALSE,
                      !.runs[r].deadline = 0, !.runs[r].last = "none"]
  IN IF rr.aborted THEN finallyBlock(w1, r)
     ELSE IF rr.found = 0
     THEN [updateJob(w1, rr.obj, "failed", "no-availability")
             EXCEPT !.runs[r].pc = "save_timeout"]
     ELSE [updateJob(w1, rr.obj, "booking", "booking")
             EXCEPT !.runs[r].pc = "save_booking", !.runs[r].target = rr.found]

\* the loop body does not count the cycle
watchLoopUncounted(w, r) ==
  LET rr == w.runs[r] IN
  IF ~rr.aborted /\ now < rr.deadline
  THEN [w EXCEPT !.runs[r].pc = "poll", !.runs[r].wake = 0, !.runs[r].armed = FALSE]
  ELSE afterWatch(w, r)

\* the loop condition and the head of the body (sniper.ts:377-384)
watchLoop(w, r) ==
  LET rr == w.runs[r] IN
  IF ~rr.aborted /\ now < rr.deadline
  THEN [w EXCEPT !.objs[rr.obj].attempts = @ + 1, !.runs[r].pc = "poll",
                 !.runs[r].wake = 0, !.runs[r].armed = FALSE]
  ELSE afterWatch(w, r)

\* History kept for the claims, not by the code: what the payload of a query
\* said about a range the loop of checkAvailability looked at, read off the
\* payload itself.
FullyOpen(resp, range) ==
  /\ resp.division
  /\ \A d \in range[1]..(range[2] - 1) : d \in DOMAIN resp.avail /\ resp.avail[d] > 0

Seen(resp, range) == IF FullyOpen(resp, range) THEN "avail" ELSE "unavail"

\* a poll that throws is handled by the catch block of the run
pollDoneEscalates(w, r, resp) ==
  IF ~resp.ok
  THEN catchBlock([w EXCEPT !.runs[r].last = "error"], r)
  ELSE sleep([updateMessage(w, w.runs[r].obj, "poll-none")
                EXCEPT !.runs[r].last = "answer"],
             r, POLL_INTERVAL_MS, "sleep_poll")

\* the rest of the loop body once checkAvailability has settled
\* (sniper.ts:385-403)
pollDone(w, r, resp) ==
  LET rr == w.runs[r]
      o == rr.obj
  IN IF ~resp.ok
     THEN sleep([updateMessage(updateMessage(w, o, "poll-error"), o, "poll-none")
                   EXCEPT !.runs[r].last = "error"],
                r, POLL_INTERVAL_MS, "sleep_poll")
     ELSE LET f == checkAvailability(resp, w.objs[o].ranges)
              w1 == [w EXCEPT !.runs[r].found = f, !.runs[r].last = "answer",
                              !.runs[r].seen =
                                [i \in DOMAIN @ |->
                                   IF f = 0 \/ i <= f
                                   THEN Seen(resp, w.objs[o].ranges[i]) ELSE @[i]]]
          IN IF f # 0
             THEN afterWatch(updateMessage(w1, o, "detected"), r)
             ELSE sleep(updateMessage(w1, o, "poll-none"),
                        r, POLL_INTERVAL_MS, "sleep_poll")

\* Phase 2 begins (sniper.ts:365-372)
startWatching(w, r) ==
  LET w1 == [w EXCEPT !.runs[r].wake = 0, !.runs[r].armed = FALSE] IN
  IF w.runs[r].aborted THEN finallyBlock(w1, r)
  ELSE [updateJob(w1, w.runs[r].obj, "watching", "window-open")
          EXCEPT !.runs[r].pc = "save_watching"]

\* remainingRanges, as indices into desiredDateRanges (sniper.ts:437-439)
RECURSIVE filterRanges(_, _, _)
filterRanges(ranges, found, i) ==
  IF i > Len(ranges) THEN <<>>
  ELSE IF ranges[i] # ranges[found]
       THEN <<i>> \o filterRanges(ranges, found, i + 1)
       ELSE filterRanges(ranges, found, i + 1)

remainingRanges(w, r) ==
  filterRanges(w.objs[w.runs[r].obj].ranges, w.runs[r].found, 1)

\* the head of the fallback loop at its k-th range (sniper.ts:440-448), and
\* what follows the loop (sniper.ts:467-472)
fallbackLoop(w, r, k) ==
  IF k > Len(remainingRanges(w, r))
  THEN [updateJob(w, w.runs[r].obj, "failed", "could-not-book")
          EXCEPT !.runs[r].pc = "save_allfailed", !.runs[r].fb = 0,
                 !.runs[r].target = 0]
  ELSE IF w.runs[r].aborted THEN finallyBlock(w, r)
  ELSE [w EXCEPT !.runs[r].pc = "fbcheck", !.runs[r].fb = k,
                 !.runs[r].target = 0]

\* attemptBrowserBooking returned "failed" (sniper.ts:426, 436-440, 456-465)
claimFailed(w, r) ==
  LET rr == w.runs[r]
      w1 == [w EXCEPT !.runs[r].tried[rr.target] = "failed"]
  IN fallbackLoop(w1, r, rr.fb + 1)

\* a success that always records the range the watch loop found
claimBookedFound(w, r) ==
  LET rr == w.runs[r]
      o == rr.obj
      w1 == [w EXCEPT !.runs[r].tried[rr.target] = "booked",
                      !.objs[o].bookedRange = w.objs[o].ranges[rr.found]]
  IN [updateJob(w1, o, "in-cart", "in-cart") EXCEPT !.runs[r].pc = "save_incart"]

\* attemptBrowserBooking returned "booked" (sniper.ts:426-434, 456-464)
claimBooked(w, r) ==
  LET rr == w.runs[r]
      o == rr.obj
      w1 == [w EXCEPT !.runs[r].tried[rr.target] = "booked",
                      !.objs[o].bookedRange = w.objs[o].ranges[rr.target]]
  IN [updateJob(w1, o, "in-cart", "in-cart") EXCEPT !.runs[r].pc = "save_incart"]

\* the fallback re-query settled (sniper.ts:444-455)
fallbackChecked(w, r, resp) ==
  LET rr == w.runs[r]
      o == rr.obj
      i == remainingRanges(w, r)[rr.fb]
  IN IF ~resp.ok THEN catchBlock(w, r)
     ELSE LET w1 == [w EXCEPT !.runs[r].seen[i] = Seen(resp, w.objs[o].ranges[i])]
          IN IF checkAvailability(resp, <<w.objs[o].ranges[i]>>) = 0
             THEN fallbackLoop([w1 EXCEPT !.runs[r].tried[i] = "unavail"], r, rr.fb + 1)
             ELSE [updateMessage(w1, o, "fallback")
                     EXCEPT !.runs[r].target = i, !.runs[r].pc = "claim"]

\* ------------------------------------------------- the engine's actions
\* One action per await of runSniperJob: the code from the moment the awaited
\* call settles up to the next await.
EngineUnchanged ==
  UNCHANGED <<now, build, envCreds, createCall, cancelCall, loaded,
              createResult, query, supplied, feed, post, share, writes>>

At(r, pc) == r \in DOMAIN runs /\ runs[r].pc = pc

\* responses the engine's polls are answered with: an HTTP error, a payload
\* without the division, or a payload with every night listed
PollResponses ==
  {resp \in Responses :
     \/ ~resp.ok /\ resp.division /\ resp.avail = <<>>
     \/ resp.ok /\ ~resp.division /\ resp.avail = <<>>
     \/ resp.ok /\ resp.division /\ DOMAIN resp.avail = Nights}

\* await saveJobs() at sniper.ts:322
SavedPreWarm(r) ==
  /\ WithinRuns
  /\ At(r, "save_prewarm")
  /\ \E ok \in BOOLEAN :
       Commit(IF ok THEN [saveJobs(Cur) EXCEPT !.runs[r].pc = "launch"]
              ELSE catchBlock(Cur, r))
  /\ EngineUnchanged

\* chromium.launch, newContext, newPage (sniper.ts:324-332)
launched(w, r, out) ==
  LET s == Len(w.sessions) + 1
      id == JobId(w, w.runs[r].obj)
      opened == [w EXCEPT !.sessions = Append(@, [open |-> TRUE, closeCalls |-> 0,
                                                  id |-> id])]
  IN IF out = "launch-error" THEN catchBlock(w, r)
     ELSE IF out = "context-error" THEN catchBlock(opened, r)
     ELSE LET w1 == [opened EXCEPT !.browsers[id] = s, !.runs[r].page = s]
          IN IF w1.runs[r].aborted THEN finallyBlock(w1, r)
             ELSE [w1 EXCEPT !.runs[r].pc = "signin"]

Launch(r) ==
  /\ WithinRuns
  /\ At(r, "launch")
  /\ \E out \in {"ok", "launch-error", "context-error"} : Commit(launched(Cur, r, out))
  /\ EngineUnchanged

\* a page operation that throws when it fails: signIn, page.goto
\* (sniper.ts:336-349)
pageStep(w, r, ok, next) ==
  IF ~ok THEN catchBlock(w, r)
  ELSE IF w.runs[r].aborted THEN finallyBlock(w, r)
  ELSE [w EXCEPT !.runs[r].pc = next]

PageOpen(r) == sessions[runs[r].page].open

\* signIn(page, email, password): besides its own "Login failed" error and
\* the errors of goto and waitFor, it can fail in emailInput.fill(email) or
\* passwordInput.fill(password); the text of that error is the library's,
\* which reports the call that failed with the value it was given
\* (sniper.ts:999-1042)
signIn(w, r, out) ==
  IF out = "fill-error" THEN catchMessage(w, r, "sniper-failed-quoting-credentials")
  ELSE pageStep(w, r, out = "ok", "goto")

SignIn(r) ==
  /\ WithinRuns
  /\ At(r, "signin")
  /\ \E out \in {"ok", "error", "fill-error"} :
       /\ out # "error" => PageOpen(r)
       /\ Commit(signIn(Cur, r, out))
  /\ EngineUnchanged

Navigate(r) ==
  /\ WithinRuns
  /\ At(r, "goto")
  /\ \E ok \in BOOLEAN :
       /\ ok => PageOpen(r)
       /\ Commit(pageStep(Cur, r, ok, "groupsize"))
  /\ EngineUnchanged

\* setGroupSize has returned; then the wait for the window (sniper.ts:355-365)
groupSizeSet(w, r) ==
  LET o == w.runs[r].obj
      waitMs == w.objs[o].window - now
  IN IF waitMs > 0
     THEN sleep(updateMessage(w, o, "pre-warmed"), r, waitMs, "sleep_window")
     ELSE startWatching(w, r)

\* await setGroupSize(page, job) at sniper.ts:353: the page operations
\* succeed, or one of them throws into setGroupSize's own catch
\* (sniper.ts:744), which awaits saveScreenshot(..., "group-size-error")
SetGroupSize(r) ==
  /\ WithinRuns
  /\ At(r, "groupsize")
  /\ \E ok \in BOOLEAN :
       /\ ok => PageOpen(r)
       /\ IF ok THEN Commit(groupSizeSet(Cur, r))
          ELSE Commit([Cur EXCEPT !.runs[r].pc = "groupsize_error"])
  /\ EngineUnchanged

\* the catch block of setGroupSize ends (sniper.ts:744-748) and setGroupSize
\* returns normally
GroupSizeErrorLogged(r) ==
  /\ WithinRuns
  /\ At(r, "groupsize_error")
  /\ Commit(groupSizeSet(Cur, r))
  /\ EngineUnchanged

\* the timer of sleep(waitMs, signal) fires
WindowOpens(r) ==
  /\ WithinRuns
  /\ At(r, "sleep_window")
  /\ now >= runs[r].wake
  /\ Commit(startWatching(Cur, r))
  /\ EngineUnchanged

\* sleep rejected with "Aborted": the catch block runs
SleepAborted(r) ==
  /\ WithinRuns
  /\ At(r, "sleep_rejected")
  /\ Commit(catchBlock([Cur EXCEPT !.runs[r].wake = 0, !.runs[r].armed = FALSE], r))
  /\ EngineUnchanged

\* await saveJobs() at sniper.ts:372, then the first pass of the loop
watchingSaved(w, r) ==
  watchLoop([saveJobs(w) EXCEPT !.runs[r].deadline = now + MAX_WATCH_DURATION_MS,
                                !.runs[r].found = 0], r)

SavedWatching(r) ==
  /\ WithinRuns
  /\ At(r, "save_watching")
  /\ \E ok \in BOOLEAN :
       Commit(IF ok THEN watchingSaved(Cur, r) ELSE catchBlock(Cur, r))
  /\ EngineUnchanged

\* await checkAvailability(...) at sniper.ts:380
Poll(r) ==
  /\ WithinRuns
  /\ At(r, "poll")
  /\ \E resp \in PollResponses :
       Commit(pollDone([Cur EXCEPT !.runs[r].polls = @ + 1], r, resp))
  /\ EngineUnchanged

\* the timer of sleep(POLL_INTERVAL_MS, signal) fires
PollSleepOver(r) ==
  /\ WithinRuns
  /\ At(r, "sleep_poll")
  /\ now >= runs[r].wake
  /\ Commit(watchLoop(Cur, r))
  /\ EngineUnchanged

\* await saveJobs() followed by return (sniper.ts:413-414, 432-433, 462-463)
\* or by the end of the try block (sniper.ts:472)
SavedFinal(r) ==
  /\ WithinRuns
  /\ r \in DOMAIN runs
  /\ runs[r].pc \in {"save_timeout", "save_incart", "save_allfailed"}
  /\ \E ok \in BOOLEAN :
       Commit(IF ok THEN finallyBlock(saveJobs(Cur), r) ELSE catchBlock(Cur, r))
  /\ EngineUnchanged

\* await saveJobs() at sniper.ts:422
SavedBooking(r) ==
  /\ WithinRuns
  /\ At(r, "save_booking")
  /\ \E ok \in BOOLEAN :
       Commit(IF ok THEN [saveJobs(Cur) EXCEPT !.runs[r].pc = "claim"]
              ELSE catchBlock(Cur, r))
  /\ EngineUnchanged

\* attemptBrowserBooking up to the click on the booking button and the wait
\* after it (sniper.ts:758-878): any failure, a closed page included, makes
\* it return "failed"
claimStep(w, r, clicked) ==
  IF clicked THEN [w EXCEPT !.runs[r].pc = "claim_post"] ELSE claimFailed(w, r)

ClaimAttempt(r) ==
  /\ WithinRuns
  /\ At(r, "claim")
  /\ \E clicked \in BOOLEAN :
       /\ clicked => PageOpen(r)
       /\ Commit(claimStep(Cur, r, clicked))
  /\ EngineUnchanged

\* attemptBrowserBooking after the click (sniper.ts:879-890): every path
\* returns "booked", whatever fillOrderDetails and the page do
ClaimReturns(r) ==
  /\ WithinRuns
  /\ At(r, "claim_post")
  /\ Commit(claimBooked(Cur, r))
  /\ EngineUnchanged

\* await checkAvailability(..., [fallbackRange]) at sniper.ts:444
FallbackCheck(r) ==
  /\ WithinRuns
  /\ At(r, "fbcheck")
  /\ \E resp \in PollResponses : Commit(fallbackChecked(Cur, r, resp))
  /\ EngineUnchanged

\* await saveJobs() in the catch block (sniper.ts:480): the finally block
\* runs whether it throws or not
SavedCatch(r) ==
  /\ WithinRuns
  /\ At(r, "save_catch")
  /\ \E ok \in BOOLEAN :
       Commit(finallyBlock(IF ok THEN saveJobs(Cur) ELSE Cur, r))
  /\ EngineUnchanged

\* await b.browser.close() in the finally block, then browsers.delete
\* (sniper.ts:489-493)
FinallyClosed(r) ==
  /\ WithinRuns
  /\ At(r, "finally_close")
  /\ Commit([Cur EXCEPT !.browsers[JobId(Cur, runs[r].obj)] = 0,
                        !.runs[r].pc = "done"])
  /\ EngineUnchanged

\* ------------------------------------------------------- the service API
ApiUnchanged == UNCHANGED <<now, build, envCreds, query, feed, post, share, writes>>
NotSupplied == UNCHANGED supplied

UsedIds == {objs[o].id : o \in DOMAIN objs} \cup {id \in JobIds : disk[id] # None}

\* a job can still be created: the model follows a store of MaxStored jobs
\* when jobs are created, and one of MaxJobs jobs loaded at startup
CanCreate == JobIds \ UsedIds # {} /\ Cardinality(UsedIds) < MaxStored

\* createJob up to await saveJobs() (sniper.ts:140-162; part_002:186-208)
createJob(w, id, req) ==
  LET job == [id |-> id, ranges |-> req.ranges, window |-> req.window,
              status |-> "pending", attempts |-> 0, message |-> "scheduled",
              bookedRange |-> None]
      w1 == [w EXCEPT !.objs = Append(@, job), !.jobs[id] = Len(w.objs) + 1]
  IN IF build = "perjob" THEN [w1 EXCEPT !.credentials[id] = TRUE] ELSE w1

CreateJob(req) ==
  /\ WithinRuns
  /\ loaded = "done"
  /\ CanCreate
  /\ LET id == CHOOSE i \in JobIds \ UsedIds : \A k \in JobIds \ UsedIds : i <= k
     IN /\ Commit(createJob(Cur, id, req))
        /\ createCall' = [createCall EXCEPT ![id] = [pc |-> "save", obj |-> Len(objs) + 1]]
  /\ UNCHANGED <<cancelCall, loaded, createResult>>
  /\ ApiUnchanged /\ NotSupplied

\* createJob after await saveJobs(): scheduleJob, notify, return
\* (sniper.ts:163-166); a failed write rejects the call
createJobSaved(w, o) == scheduleJob(saveJobs(w), o)

CreateJobSaved(id) ==
  /\ WithinRuns
  /\ createCall[id].pc = "save"
  /\ \E ok \in BOOLEAN :
       LET o == createCall[id].obj
           w1 == IF ok THEN createJobSaved(Cur, o) ELSE Cur
       IN /\ Commit(w1)
          /\ createCall' = [createCall EXCEPT ![id].pc = IF ok THEN "done" ELSE "rejected"]
          /\ createResult' = IF ok THEN [createResult EXCEPT ![id] = snapshot(w1, o)]
                             ELSE createResult
  /\ UNCHANGED <<cancelCall, loaded>>
  /\ ApiUnchanged /\ NotSupplied

\* ac.abort(): the signal of run r is aborted; a sleep that registered its
\* listener rejects
abort(w, r) ==
  LET rr == w.runs[r] IN
  IF rr.aborted THEN w
  ELSE [w EXCEPT !.runs[r].aborted = TRUE,
                 !.runs[r].pc = IF rr.pc \in {"sleep_window", "sleep_poll"} /\ rr.armed
                                THEN "sleep_rejected" ELSE rr.pc]

\* cancelJob from browsers.delete to updateJob (sniper.ts:195-198;
\* part_002:262-267)
cancelJobUpdate(w, id, o) ==
  LET w1 == IF build = "perjob" THEN [w EXCEPT !.credentials[id] = FALSE] ELSE w
  IN updateJob(w1, o, "cancelled", "cancelled")

\* a cancelJob that clears the timeouts of every job
cancelJobClearsAll(w, id) ==
  LET o == w.jobs[id]
      w1 == [w EXCEPT !.timeouts = [h \in DOMAIN @ |-> [@[h] EXCEPT !.live = FALSE]],
                      !.timers = [i \in JobIds |-> 0]]
      ac == w1.acs[id]
      w2 == IF ac # 0 THEN [abort(w1, ac) EXCEPT !.acs[id] = 0] ELSE w1
      b == w2.browsers[id]
  IN IF b # 0 THEN closeBrowser(w2, b) ELSE cancelJobUpdate(w2, id, o)

\* cancelJob up to its first await (sniper.ts:169-191): the close of the
\* browser when there is one, else saveJobs
cancelJob(w, id) ==
  LET o == w.jobs[id]
      w1 == [clearTimeout(w, w.timers[id]) EXCEPT !.timers[id] = 0]
      ac == w1.acs[id]
      w2 == IF ac # 0 THEN [abort(w1, ac) EXCEPT !.acs[id] = 0] ELSE w1
      b == w2.browsers[id]
  IN IF b # 0 THEN closeBrowser(w2, b) ELSE cancelJobUpdate(w2, id, o)

\* cancelJob(id), called on its own or by deleteJob (sniper.ts:203-204)
CancelJob(id, del) ==
  /\ WithinRuns
  /\ loaded = "done"
  /\ jobs[id] # 0
  /\ cancelCall[id].pc = "idle"
  /\ Commit(cancelJob(Cur, id))
  /\ cancelCall' = [cancelCall EXCEPT ![id] =
                      [pc |-> IF browsers[id] # 0 THEN "close" ELSE "save",
                       obj |-> jobs[id], del |-> del,
                       from |-> objs[jobs[id]].status,
                       run |-> abortControllers[id]]]
  /\ UNCHANGED <<createCall, loaded, createResult>>
  /\ ApiUnchanged /\ NotSupplied

\* await b.browser.close() of cancelJob settles (sniper.ts:191-198)
CancelClosed(id) ==
  /\ WithinRuns
  /\ cancelCall[id].pc = "close"
  /\ Commit(cancelJobUpdate([Cur EXCEPT !.browsers[id] = 0], id, cancelCall[id].obj))
  /\ cancelCall' = [cancelCall EXCEPT ![id].pc = "save"]
  /\ UNCHANGED <<createCall, loaded, createResult>>
  /\ ApiUnchanged /\ NotSupplied

\* await saveJobs() of cancelJob settles (sniper.ts:199-200); deleteJob goes
\* on with jobs.delete (sniper.ts:205)
CancelSaved(id) ==
  /\ WithinRuns
  /\ cancelCall[id].pc = "save"
  /\ \E ok \in BOOLEAN :
       LET w1 == IF ok THEN saveJobs(Cur) ELSE Cur
           goOn == ok /\ cancelCall[id].del
       IN /\ Commit(IF goOn THEN [w1 EXCEPT !.jobs[id] = 0] ELSE w1)
          /\ cancelCall' = [cancelCall EXCEPT ![id].pc =
                              IF goOn THEN "delete_save" ELSE "done"]
  /\ UNCHANGED <<createCall, loaded, createResult>>
  /\ ApiUnchanged /\ NotSupplied

\* await saveJobs() of deleteJob settles (sniper.ts:206-207)
DeleteSaved(id) ==
  /\ WithinRuns
  /\ cancelCall[id].pc = "delete_save"
  /\ \E ok \in BOOLEAN : Commit(IF ok THEN saveJobs(Cur) ELSE Cur)
  /\ cancelCall' = [cancelCall EXCEPT ![id].pc = "done"]
  /\ UNCHANGED <<createCall, loaded, createResult>>
  /\ ApiUnchanged /\ NotSupplied

\* supplyCredentials (part_002:216-234)
supplyCredentials(w, id) ==
  LET o == w.jobs[id]
      w1 == [w EXCEPT !.credentials[id] = TRUE]
      w2 == IF w1.objs[o].status = "pending" THEN scheduleJob(w1, o) ELSE w1
  IN updateMessage(w2, o, "credentials-updated")

SupplyCredentials(id) ==
  /\ WithinRuns
  /\ loaded = "done"
  /\ build = "perjob"
  /\ jobs[id] # 0
  /\ ~supplied[id]
  /\ supplied' = [supplied EXCEPT ![id] = TRUE]
  /\ LET w1 == supplyCredentials(Cur, id)
     IN Commit(w1)
  /\ UNCHANGED <<createCall, cancelCall, loaded, createResult>>
  /\ ApiUnchanged

\* a loop body that reschedules every pending job, whatever its window
loadJobUnchecked(w, id) ==
  LET dj == w.disk[id]
      o == Len(w.objs) + 1
      w1 == [w EXCEPT !.objs = Append(@, dj), !.jobs[id] = o]
  IN IF dj.status # "pending" THEN w1 ELSE scheduleJob(w1, o)

\* the body of the loop of loadAndScheduleJobs for one persisted job
\* (sniper.ts:218-234; part_002:287-312)
loadJob(w, id) ==
  LET dj == w.disk[id]
      o == Len(w.objs) + 1
      w1 == [w EXCEPT !.objs = Append(@, dj), !.jobs[id] = o]
  IN IF dj.status # "pending" THEN w1
     ELSE IF dj.window + MAX_WATCH_DURATION_MS > now
     THEN IF build = "env" THEN scheduleJob(w1, o)
          ELSE IF w1.credentials[id] THEN scheduleJob(w1, o)
          ELSE updateMessage(w1, o, "awaiting-credentials")
     ELSE updateJob(w1, o, "failed", "window-passed")

RECURSIVE loadJobsFrom(_, _)
loadJobsFrom(w, id) ==
  IF id > MaxJobs THEN w
  ELSE loadJobsFrom(IF w.disk[id] = None THEN w ELSE loadJob(w, id), id + 1)

\* loadAndScheduleJobs once the file has been read, up to await saveJobs()
LoadJobs ==
  /\ WithinRuns
  /\ loaded = "no"
  /\ LET w1 == loadJobsFrom(Cur, 1)
     IN Commit(w1)
  /\ loaded' = "saving"
  /\ UNCHANGED <<createCall, cancelCall, createResult>>
  /\ ApiUnchanged /\ NotSupplied

\* await saveJobs() of loadAndScheduleJobs settles (sniper.ts:236); the
\* caller catches a failure
LoadSaved ==
  /\ WithinRuns
  /\ loaded = "saving"
  /\ \E ok \in BOOLEAN : Commit(IF ok THEN saveJobs(Cur) ELSE Cur)
  /\ loaded' = "done"
  /\ UNCHANGED <<createCall, cancelCall, createResult>>
  /\ ApiUnchanged /\ NotSupplied

\* the timeouts armed for job id: created, not cleared, not fired
armedFor(id) ==
  {h \in DOMAIN timeouts : timeouts[h].live /\ objs[timeouts[h].obj].id = id}

\* the callback scheduleJob gave setTimeout runs (sniper.ts:283-286)
timerFired(w, h) ==
  LET o == w.timeouts[h].obj
  IN runSniperJob([w EXCEPT !.timeouts[h].live = FALSE, !.timeouts[h].fired = TRUE,
                            !.timers[JobId(w, o)] = 0], o)

\* a timeout created for job id is due and has not been cleared
TimerFires(id) ==
  /\ WithinRuns
  /\ \E h \in DOMAIN timeouts :
       /\ timeouts[h].live
       /\ objs[timeouts[h].obj].id = id
       /\ now >= timeouts[h].due
       /\ LET w1 == timerFired(Cur, h)
          IN Commit(w1)
  /\ UNCHANGED <<createCall, cancelCall, loaded, createResult>>
  /\ ApiUnchanged /\ NotSupplied

\* Date.now() can still be read: by scheduleJob, which createJob,
\* supplyCredentials and loadAndScheduleJobs call, by a pending timer, or by
\* a run that has not left its watch loop
ClockRead ==
  \/ CanCreate
  \/ \E id \in JobIds : createCall[id].pc = "save"
  \/ \E h \in DOMAIN timeouts : timeouts[h].live
  \/ \E id \in JobIds :
       /\ build = "perjob" /\ ~supplied[id]
       /\ jobs[id] # 0 /\ objs[jobs[id]].status = "pending"
  \/ \E r \in DOMAIN runs :
       runs[r].pc \in {"save_prewarm", "launch", "signin", "goto", "groupsize",
                       "groupsize_error",
                       "sleep_window", "save_watching", "poll", "sleep_poll"}

\* the clock: followed from the first job on, while it can still be read
Tick ==
  /\ WithinRuns
  /\ now < MaxTime
  /\ objs # <<>>
  /\ ClockRead
  /\ now' = now + 1
  /\ UNCHANGED <<build, envCreds, objs, jobs, timers, timeouts, browsers, abortControllers,
                 credentials, disk, sessions, runs, createCall, cancelCall,
                 loaded, createResult, query, supplied, feed, post, share, writes>>

\* ------------------------------------------------------- specification
Requests ==
  [ranges : RequestRanges, window : Windows]
    \cup [ranges : {<<RangeA>>}, window : FarWindows]


\* what a previous process may have left in sniper-jobs.json; a job it left
\* past pending has its window behind
persisted(status, window) ==
  [id |-> 1, ranges |-> <<RangeA>>, window |-> window, status |-> status,
   attempts |-> IF status = "pending" THEN 0 ELSE 1,
   message |-> status,
   bookedRange |-> IF status = "in-cart" THEN RangeA ELSE None]

PersistedJobs ==
  {persisted("pending", wd) : wd \in {-2, 1, 3}}
    \cup {persisted("watching", -1), persisted("in-cart", -1)}

MaxSubscribers == 2
MaxUpdates == 2

\* the callbacks the SSE route registers, one for each connection
Callbacks == 1..MaxSubscribers

\* no request was sent to the creation route
NoPost == [body |-> [permitId |-> FALSE, window |-> 0, ranges |-> <<>>,
                     credentials |-> FALSE],
           status |-> 0, error |-> ""]

\* no saveJobs call is in flight
NoWrites == [id \in 1..MaxJobs |-> [pc |-> "none", list |-> <<>>]]

\* no snapshot was handed out
NoShare == [arrays |-> <<>>, ranges |-> <<>>, job |-> <<>>, handed |-> <<>>,
            edits |-> 0, last |-> "none"]

\* no client is connected
NoFeed ==
  /\ subscribers = <<>>
  /\ received = [cb \in Callbacks |-> <<>>]
  /\ updates = <<>>

NoQuery == [resp |-> [ok |-> FALSE, division |-> FALSE, avail |-> <<>>],
            ranges |-> <<>>, called |-> FALSE, result |-> 0]

Init ==
  /\ now = 0
  /\ build \in {"env", "perjob"}
  /\ envCreds \in BOOLEAN
  /\ build = "perjob" => ~envCreds
  /\ objs = <<>>
  /\ jobs = [id \in JobIds |-> 0]
  /\ timers = [id \in JobIds |-> 0]
  /\ timeouts = <<>>
  /\ browsers = [id \in JobIds |-> 0]
  /\ abortControllers = [id \in JobIds |-> 0]
  /\ credentials = [id \in JobIds |-> FALSE]
  /\ \/ disk = [id \in JobIds |-> None]
     \/ \E dj \in PersistedJobs : disk = [id \in JobIds |-> IF id = 1 THEN dj ELSE None]
  /\ sessions = <<>>
  /\ runs = <<>>
  /\ createCall = [id \in JobIds |-> [pc |-> "none", obj |-> 0]]
  /\ cancelCall = [id \in JobIds |-> [pc |-> "idle", obj |-> 0, del |-> FALSE,
                                       from |-> "", run |-> 0]]
  /\ loaded = "no"
  /\ createResult = [id \in JobIds |-> None]
  /\ query = NoQuery
  /\ supplied = [id \in JobIds |-> FALSE]
  /\ NoFeed
  /\ post = NoPost
  /\ share = NoShare
  /\ writes = NoWrites

\* the runs of job id between their start and the end of their finally block
ActiveRuns(id) ==
  {r \in DOMAIN runs : runs[r].pc # "done" /\ objs[runs[r].obj].id = id}

Next ==
  \/ Tick
  \/ \E req \in Requests : CreateJob(req)
  \/ \E id \in JobIds : CreateJobSaved(id)
  \/ \E id \in JobIds, del \in BOOLEAN : CancelJob(id, del)
  \/ \E id \in JobIds : CancelClosed(id)
  \/ \E id \in JobIds : CancelSaved(id)
  \/ \E id \in JobIds : DeleteSaved(id)
  \/ \E id \in JobIds : SupplyCredentials(id)
  \/ LoadJobs
  \/ LoadSaved
  \/ \E id \in JobIds : TimerFires(id)
  \/ \E r \in DOMAIN runs : SavedPreWarm(r)
  \/ \E r \in DOMAIN runs : Launch(r)
  \/ \E r \in DOMAIN runs : SignIn(r)
  \/ \E r \in DOMAIN runs : Navigate(r)
  \/ \E r \in DOMAIN runs : SetGroupSize(r)
  \/ \E r \in DOMAIN runs : GroupSizeErrorLogged(r)
  \/ \E r \in DOMAIN runs : WindowOpens(r)
  \/ \E r \in DOMAIN runs : SleepAborted(r)
  \/ \E r \in DOMAIN runs : SavedWatching(r)
  \/ \E r \in DOMAIN runs : Poll(r)
  \/ \E r \in DOMAIN runs : PollSleepOver(r)
  \/ \E r \in DOMAIN runs : SavedFinal(r)
  \/ \E r \in DOMAIN runs : SavedBooking(r)
  \/ \E r \in DOMAIN runs : ClaimAttempt(r)
  \/ \E r \in DOMAIN runs : ClaimReturns(r)
  \/ \E r \in DOMAIN runs : FallbackCheck(r)
  \/ \E r \in DOMAIN runs : SavedCatch(r)
  \/ \E r \in DOMAIN runs : FinallyClosed(r)

Spec == Init /\ [][Next]_vars

\* ------------------------------------- checkAvailability called on its own
MaxRanges == 3

RangeLists == UNION { [1..n -> ValidRanges] : n \in 1..MaxRanges }

\* checkAvailability(permitId, divisionId, ranges) answered with resp
\* (sniper.ts:527-587): -1 stands for the thrown HTTP error
queryAvailability(resp, ranges) ==
  IF ~resp.ok THEN -1 ELSE checkAvailability(resp, ranges)

Query ==
  /\ ~query.called
  /\ query' = [query EXCEPT !.called = TRUE,
                            !.result = queryAvailability(query.resp, query.ranges)]
  /\ UNCHANGED <<now, build, envCreds, objs, jobs, timers, timeouts, browsers,
                 abortControllers, credentials, disk, sessions, runs,
                 createCall, cancelCall, loaded, createResult, supplied, feed, post, share, writes>>

InitQuery ==
  /\ now = 0
  /\ build = "env"
  /\ envCreds = TRUE
  /\ objs = <<>>
  /\ jobs = [id \in JobIds |-> 0]
  /\ timers = [id \in JobIds |-> 0]
  /\ timeouts = <<>>
  /\ browsers = [id \in JobIds |-> 0]
  /\ abortControllers = [id \in JobIds |-> 0]
  /\ credentials = [id \in JobIds |-> FALSE]
  /\ disk = [id \in JobIds |-> None]
  /\ sessions = <<>>
  /\ runs = <<>>
  /\ createCall = [id \in JobIds |-> [pc |-> "none", obj |-> 0]]
  /\ cancelCall = [id \in JobIds |-> [pc |-> "idle", obj |-> 0, del |-> FALSE,
                                       from |-> "", run |-> 0]]
  /\ loaded = "no"
  /\ createResult = [id \in JobIds |-> None]
  /\ supplied = [id \in JobIds |-> FALSE]
  /\ NoFeed
  /\ post = NoPost
  /\ share = NoShare
  /\ writes = NoWrites
  /\ query \in [resp : Responses, ranges : RangeLists, called : {FALSE}, result : {0}]

SpecQuery == InitQuery /\ [][Query]_vars

\* --------------------------------------- updateJob with clients connected
RECURSIVE notifyUnguarded(_, _, _, _)
\* the loop of notify without its try: the first callback that throws ends it
notifyUnguarded(subs, throws, job, rec) ==
  IF subs = <<>> THEN rec
  ELSE LET got == [rec EXCEPT ![Head(subs)] = Append(@, job)]
       IN IF Head(subs) \in throws THEN got
          ELSE notifyUnguarded(Tail(subs), throws, job, got)

RECURSIVE notify(_, _, _, _)
\* for (const cb of subscribers) { try { cb(job) } catch { } }: the callbacks
\* of throws throw once they have been called (sniper.ts:93-101)
notify(subs, throws, job, rec) ==
  IF subs = <<>> THEN rec
  ELSE notify(Tail(subs), throws, job, [rec EXCEPT ![Head(subs)] = Append(@, job)])

\* subscribeToSniperUpdates(cb): subscribers.add(cb) (sniper.ts:88-91)
Subscribe(cb) ==
  /\ \A i \in DOMAIN subscribers : subscribers[i] # cb
  /\ subscribers' = Append(subscribers, cb)
  /\ UNCHANGED <<now, build, envCreds, objs, jobs, timers, timeouts, browsers,
                 abortControllers, credentials, disk, sessions, runs, createCall,
                 cancelCall, loaded, createResult, query, supplied, received, updates, post, share, writes>>

\* the function subscribeToSniperUpdates returned: subscribers.delete(cb),
\* called by the route when the connection closes (sniper.ts:90; routes/sniper.ts:90-92)
Unsubscribe(cb) ==
  /\ \E i \in DOMAIN subscribers : subscribers[i] = cb
  /\ subscribers' = SelectSeq(subscribers, LAMBDA c : c # cb)
  /\ UNCHANGED <<now, build, envCreds, objs, jobs, timers, timeouts, browsers,
                 abortControllers, credentials, disk, sessions, runs, createCall,
                 cancelCall, loaded, createResult, query, supplied, received, updates, post, share, writes>>

UpdateStatuses == {"pre-warming", "watching", "failed"}

\* updateJob(job, {status, message}): Object.assign, then notify({ ...job })
\* (sniper.ts:103-106)
UpdateJob(o, status, throws) ==
  /\ Len(updates) < MaxUpdates
  /\ LET w == updateJob(Cur, o, status, status) IN
     /\ Commit(w)
     /\ received' = notify(subscribers, throws, w.objs[o], received)
  /\ updates' = Append(updates, [obj |-> o, status |-> status,
                                  subs |-> subscribers, throws |-> throws])
  /\ UNCHANGED <<now, build, envCreds, createCall, cancelCall, loaded,
                 createResult, query, supplied, subscribers, post, share, writes>>

InitNotify ==
  /\ now = 0
  /\ build \in {"env", "perjob"}
  /\ envCreds = (build = "env")
  /\ objs = <<persisted("pending", 3)>>
  /\ jobs = [id \in JobIds |-> IF id = 1 THEN 1 ELSE 0]
  /\ timers = [id \in JobIds |-> 0]
  /\ timeouts = <<>>
  /\ browsers = [id \in JobIds |-> 0]
  /\ abortControllers = [id \in JobIds |-> 0]
  /\ credentials = [id \in JobIds |-> FALSE]
  /\ disk = [id \in JobIds |-> IF id = 1 THEN persisted("pending", 3) ELSE None]
  /\ sessions = <<>>
  /\ runs = <<>>
  /\ createCall = [id \in JobIds |-> [pc |-> "none", obj |-> 0]]
  /\ cancelCall = [id \in JobIds |-> [pc |-> "idle", obj |-> 0, del |-> FALSE,
                                       from |-> "", run |-> 0]]
  /\ loaded = "done"
  /\ createResult = [id \in JobIds |-> None]
  /\ query = NoQuery
  /\ supplied = [id \in JobIds |-> FALSE]
  /\ NoFeed
  /\ post = NoPost
  /\ share = NoShare
  /\ writes = NoWrites

NextNotify ==
  \/ \E cb \in Callbacks : Subscribe(cb)
  \/ \E cb \in Callbacks : Unsubscribe(cb)
  \/ \E o \in DOMAIN objs, status \in UpdateStatuses, throws \in SUBSET Callbacks :
       UpdateJob(o, status, throws)

SpecNotify == InitNotify /\ [][NextNotify]_vars

\* ------------------------------------------ a store of several jobs
\* the jobs of sniper-jobs.json at startup, MaxJobs pending jobs with the
\* window of the first at first and of the others at rest
framePersisted(first, rest) ==
  [id \in JobIds |->
     [persisted("pending", IF id = 1 THEN first ELSE rest) EXCEPT !.id = id]]

\* The clock stands still at MaxTime. Either the window of the first job is
\* open since one tick and the pre-warm time of the others has come (all
\* engines start at startup, the first polls, the others sleep until their
\* window), or the window of the first job is so far off that its trigger
\* fires after 1 ms and the triggers of the others stay armed.
FramePersisted ==
  {framePersisted(MaxTime - 1, MaxTime + PRE_WARM_LEAD_MS),
   framePersisted(MaxTime + PRE_WARM_LEAD_MS + TIMEOUT_MAX + 1,
                  MaxTime + PRE_WARM_LEAD_MS + 1)}

InitFrame ==
  /\ now = MaxTime
  /\ build = "env"
  /\ envCreds = TRUE
  /\ objs = <<>>
  /\ jobs = [id \in JobIds |-> 0]
  /\ timers = [id \in JobIds |-> 0]
  /\ timeouts = <<>>
  /\ browsers = [id \in JobIds |-> 0]
  /\ abortControllers = [id \in JobIds |-> 0]
  /\ credentials = [id \in JobIds |-> FALSE]
  /\ disk \in FramePersisted
  /\ sessions = <<>>
  /\ runs = <<>>
  /\ createCall = [id \in JobIds |-> [pc |-> "none", obj |-> 0]]
  /\ cancelCall = [id \in JobIds |-> [pc |-> "idle", obj |-> 0, del |-> FALSE,
                                       from |-> "", run |-> 0]]
  /\ loaded = "no"
  /\ createResult = [id \in JobIds |-> None]
  /\ query = NoQuery
  /\ supplied = [id \in JobIds |-> FALSE]
  /\ NoFeed
  /\ post = NoPost
  /\ share = NoShare
  /\ writes = NoWrites

\* a step of the engine run r
EngineStep(r) ==
  \/ SavedPreWarm(r)
  \/ Launch(r)
  \/ SignIn(r)
  \/ Navigate(r)
  \/ SetGroupSize(r)
  \/ GroupSizeErrorLogged(r)
  \/ WindowOpens(r)
  \/ SleepAborted(r)
  \/ SavedWatching(r)
  \/ Poll(r)
  \/ PollSleepOver(r)
  \/ SavedFinal(r)
  \/ SavedBooking(r)
  \/ ClaimAttempt(r)
  \/ ClaimReturns(r)
  \/ FallbackCheck(r)
  \/ SavedCatch(r)
  \/ FinallyClosed(r)

\* a step of an operation on job id
OperationStep(id) ==
  \/ \E del \in BOOLEAN : CancelJob(id, del)
  \/ CancelClosed(id)
  \/ CancelSaved(id)
  \/ DeleteSaved(id)
  \/ TimerFires(id)
  \/ SupplyCredentials(id)
  \/ CreateJobSaved(id)

\* what the service holds for job id: the fields of its objects, its armed
\* timeouts, its abort controller, its browser and the sessions opened for it
footprint(id) ==
  [job |-> {<<o, objs[o].status, objs[o].attempts, objs[o].message, objs[o].bookedRange>> :
              o \in {p \in DOMAIN objs : objs[p].id = id}},
   stored |-> jobs[id],
   armed |-> armedFor(id),
   timer |-> timers[id],
   controller |-> abortControllers[id],
   browser |-> browsers[id],
   session |-> {<<b, sessions[b]>> : b \in {c \in DOMAIN sessions : sessions[c].id = id}}]

NextFrame ==
  \/ LoadJobs
  \/ LoadSaved
  \/ \E id \in JobIds : CancelJob(id, TRUE)
  \/ \E id \in JobIds : CancelClosed(id)
  \/ \E id \in JobIds : CancelSaved(id)
  \/ \E id \in JobIds : DeleteSaved(id)
  \/ \E id \in JobIds : TimerFires(id)
  \/ \E r \in DOMAIN runs : SavedPreWarm(r)
  \/ \E r \in DOMAIN runs : Launch(r)
  \/ \E r \in DOMAIN runs : SignIn(r)
  \/ \E r \in DOMAIN runs : Navigate(r)
  \/ \E r \in DOMAIN runs : SetGroupSize(r)
  \/ \E r \in DOMAIN runs : GroupSizeErrorLogged(r)
  \/ \E r \in DOMAIN runs : WindowOpens(r)
  \/ \E r \in DOMAIN runs : SleepAborted(r)
  \/ \E r \in DOMAIN runs : SavedWatching(r)
  \/ \E r \in DOMAIN runs : Poll(r)
  \/ \E r \in DOMAIN runs : SavedFinal(r)
  \/ \E r \in DOMAIN runs : SavedBooking(r)
  \/ \E r \in DOMAIN runs : ClaimAttempt(r)
  \/ \E r \in DOMAIN runs : ClaimReturns(r)
  \/ \E r \in DOMAIN runs : SavedCatch(r)
  \/ \E r \in DOMAIN runs : FinallyClosed(r)

SpecFrame == InitFrame /\ [][NextFrame]_vars

\* ------------------------------------------------- the creation route
MaxBodyRanges == 2
MaxBodyDate == 2

\* a date of a request body: 0 when the field is missing or empty
BodyDates == 0..MaxBodyDate

\* the bodies of POST requests: permitId present or not, windowOpensAt (0
\* when missing), desiredDateRanges (<<>> when missing or empty), email and
\* password present or not
Bodies ==
  [permitId : BOOLEAN, window : {0, 1},
   ranges : UNION { [1..n -> BodyDates \X BodyDates] : n \in 0..MaxBodyRanges },
   credentials : BOOLEAN]

RECURSIVE validateRanges(_)
\* the loop over body.desiredDateRanges (routes/sniper.ts:32-45, 171-184)
validateRanges(ranges) ==
  IF ranges = <<>> THEN "ok"
  ELSE LET range == Head(ranges)
       IN IF range[1] = 0 \/ range[2] = 0 THEN "range-incomplete"
          ELSE IF range[2] <= range[1] THEN "range-order"
          ELSE validateRanges(Tail(ranges))

\* the checks of the route before it calls createJob: the route of the
\* service that takes the credentials with the request checks them
\* (routes/sniper.ts:22-54), the route of the service that reads them from
\* the environment does not (routes/sniper.ts:161-184)
validateBody(body) ==
  IF ~body.permitId \/ Len(body.ranges) = 0 \/ body.window = 0 THEN "missing-fields"
  ELSE IF validateRanges(body.ranges) # "ok" THEN validateRanges(body.ranges)
  ELSE IF build = "perjob" /\ ~body.credentials THEN "missing-credentials"
  ELSE "ok"

\* sniperRoutes.post("/") up to its response 400 or to the await in
\* createJob (routes/sniper.ts:18-56, 157-187)
PostJob ==
  /\ post.status = 0
  /\ LET error == validateBody(post.body) IN
     IF error # "ok"
     THEN /\ post' = [post EXCEPT !.status = 400, !.error = error]
          /\ UNCHANGED <<objs, jobs, timers, timeouts, browsers, abortControllers,
                         credentials, disk, sessions, runs, createCall>>
     ELSE /\ CanCreate
          /\ LET id == CHOOSE i \in JobIds \ UsedIds : \A k \in JobIds \ UsedIds : i <= k
             IN /\ Commit(createJob(Cur, id, [ranges |-> post.body.ranges,
                                              window |-> post.body.window]))
                /\ createCall' = [createCall EXCEPT
                                    ![id] = [pc |-> "save", obj |-> Len(objs) + 1]]
          /\ post' = [post EXCEPT !.status = 1]
  /\ UNCHANGED <<now, build, envCreds, cancelCall, loaded, createResult, query,
                 supplied, feed, share, writes>>

\* createJob has settled: the route answers 201 with the job, or 500 with
\* the message of the error (routes/sniper.ts:55-61, 186-192)
PostResponds(id) ==
  /\ post.status = 1
  /\ createCall[id].pc \in {"done", "rejected"}
  /\ post' = [post EXCEPT !.status = IF createCall[id].pc = "done" THEN 201 ELSE 500]
  /\ UNCHANGED <<now, build, envCreds, objs, jobs, timers, timeouts, browsers,
                 abortControllers, credentials, disk, sessions, runs, createCall,
                 cancelCall, loaded, createResult, query, supplied, feed, share, writes>>

InitRoute ==
  /\ now = 0
  /\ build \in {"env", "perjob"}
  /\ envCreds \in BOOLEAN
  /\ build = "perjob" => ~envCreds
  /\ objs = <<>>
  /\ jobs = [id \in JobIds |-> 0]
  /\ timers = [id \in JobIds |-> 0]
  /\ timeouts = <<>>
  /\ browsers = [id \in JobIds |-> 0]
  /\ abortControllers = [id \in JobIds |-> 0]
  /\ credentials = [id \in JobIds |-> FALSE]
  /\ disk = [id \in JobIds |-> None]
  /\ sessions = <<>>
  /\ runs = <<>>
  /\ createCall = [id \in JobIds |-> [pc |-> "none", obj |-> 0]]
  /\ cancelCall = [id \in JobIds |-> [pc |-> "idle", obj |-> 0, del |-> FALSE,
                                       from |-> "", run |-> 0]]
  /\ loaded = "done"
  /\ createResult = [id \in JobIds |-> None]
  /\ query = NoQuery
  /\ supplied = [id \in JobIds |-> FALSE]
  /\ NoFeed
  /\ post \in [body : Bodies, status : {0}, error : {""}]
  /\ share = NoShare
  /\ writes = NoWrites

NextRoute ==
  \/ PostJob
  \/ \E id \in JobIds : CreateJobSaved(id)
  \/ \E id \in JobIds : PostResponds(id)

SpecRoute == InitRoute /\ [][NextRoute]_vars

\* ================================================================= claims

\* C6: checkAvailability returns the range of lowest list index whose every
\* night from start (inclusive) to end (exclusive) has remaining capacity
\* above 0 in the payload, a night missing from the payload counting as 0;
\* it returns none when no range qualifies or when the payload has no entry
\* for the division, and never a range with a night at 0.
C6_FirstFullyAvailable ==
  (query.called /\ query.resp.ok) =>
    LET open == {i \in DOMAIN query.ranges : FullyOpen(query.resp, query.ranges[i])}
    IN IF open = {} THEN query.result = 0
       ELSE query.result \in open /\ \A k \in open : query.result <= k

\* a later range is returned past an earlier one that has one night with
\* capacity and one night without
C6_Witness ==
  /\ query.called /\ query.resp.ok
  /\ query.result = 2
  /\ \E d, e \in query.ranges[1][1]..(query.ranges[1][2] - 1) :
       /\ Remaining(query.resp.avail, d) > 0
       /\ Remaining(query.resp.avail, e) = 0

\* C1: once cancelJob, called on a job in a non-terminal state whose engine
\* is suspended, has set the status to cancelled, the status stays cancelled
\* and bookedRange stays unset, whatever the unwinding engine does next.
C1_CancelStaysCancelled ==
  \A id \in JobIds :
    LET c == cancelCall[id] IN
    (/\ c.pc \in {"save", "delete_save", "done"}
     /\ c.from \notin Terminal
     /\ c.run # 0
     /\ Len(runs) = 1)
    => /\ objs[c.obj].status = "cancelled"
       /\ objs[c.obj].bookedRange = None

\* C2: for every job id at most one runSniperJob control flow is active.
C2_OneEnginePerJob == \A id \in JobIds : Cardinality(ActiveRuns(id)) <= 1

\* C3: close is invoked at most once on the session a run of a job has
\* opened, and exactly once by the time the cancellation of the job and the
\* run have both finished.
C3_ClosedExactlyOnce ==
  \A r \in DOMAIN runs :
    LET s == runs[r].page
        id == objs[runs[r].obj].id
    IN s # 0 =>
         /\ sessions[s].closeCalls <= 1
         /\ (/\ cancelCall[id].pc = "done"
             /\ cancelCall[id].from \notin Terminal
             /\ runs[r].pc = "done")
            => sessions[s].closeCalls = 1

\* C4: when the engine of a job has finished, no cancellation is under way
\* and the status is terminal, the session the engine opened is open exactly
\* when the status is in-cart.
C4_SessionIffInCart ==
  \A r \in DOMAIN runs :
    LET o == runs[r].obj
        id == objs[o].id
    IN (/\ ActiveRuns(id) = {}
        /\ cancelCall[id].pc \in {"idle", "done"}
        /\ objs[o].status \in Terminal)
       => ((runs[r].page # 0 /\ sessions[runs[r].page].open)
           <=> objs[o].status = "in-cart")

\* C5: the Job createJob returns and broadcasts has status pending, zero
\* attempts and no bookedRange, wherever the window lies relative to now.
C5_CreatedPending ==
  \A id \in JobIds :
    createResult[id] # None =>
      /\ createResult[id].status = "pending"
      /\ createResult[id].attempts = 0
      /\ createResult[id].bookedRange = None

\* C7: a claim is attempted on the range at index j only when every range
\* at a lower index was reported not fully available by the most recent
\* availability check of this run or has had a claim attempt fail.
C7_ClaimsInListOrder ==
  \A r \in DOMAIN runs :
    runs[r].pc \in {"claim", "claim_post"} =>
      \A i \in 1..(runs[r].target - 1) :
        runs[r].seen[i] = "unavail" \/ runs[r].tried[i] = "failed"

\* the third range is being claimed after the claim on the first failed and
\* the re-query of the second found it not fully available
C7_Witness ==
  \E r \in DOMAIN runs :
    /\ runs[r].pc = "claim"
    /\ runs[r].target = 3
    /\ runs[r].tried[1] = "failed"
    /\ runs[r].seen[2] = "unavail" /\ runs[r].tried[2] = "unavail"

\* C8: a run whose first claim attempt failed leaves the job failed only
\* when every desired range has been found unavailable by a re-query or has
\* had its claim attempt fail, and leaves it in-cart with the range just
\* claimed as bookedRange.
C8_FallbackExhaustive ==
  \A r \in DOMAIN runs :
    LET rr == runs[r]
        job == objs[rr.obj]
    IN (/\ rr.pc \in {"save_allfailed", "save_catch", "save_incart"}
        /\ ~rr.aborted
        /\ rr.found # 0 /\ rr.tried[rr.found] = "failed")
       => /\ job.status = "failed" =>
               \A i \in DOMAIN rr.tried : rr.tried[i] \in {"unavail", "failed"}
          /\ job.status = "in-cart" =>
               /\ rr.tried[rr.target] = "booked"
               /\ job.bookedRange = job.ranges[rr.target]

\* C9: in the booking phase no single step, be it a re-query that errors or
\* a claim attempt that fails, moves the job to failed while a desired range
\* has been neither re-queried nor claimed.
C9_TransientNotFatal ==
  [][\A r \in DOMAIN runs :
       (/\ runs[r].pc \in {"claim", "fbcheck"}
        /\ objs[runs[r].obj].status = "booking"
        /\ objs'[runs[r].obj].status = "failed")
       => \A i \in DOMAIN runs[r].tried : runs'[r].tried[i] # "none"]_vars

\* C10: a poll whose query throws leaves the status, watching, and the
\* attempt it counted untouched and sleeps POLL_INTERVAL; after that sleep a further poll
\* is made while the deadline has not elapsed and the job is not cancelled;
\* the watch moves the job to failed only once the deadline has elapsed.
C10_PollErrorRetried ==
  [][\A r \in DOMAIN runs :
       LET o == runs[r].obj IN
       /\ (runs[r].pc = "poll" /\ runs'[r].pc # "poll" /\ runs'[r].last = "error")
          => /\ objs'[o].status = objs[o].status
             /\ objs'[o].attempts = objs[o].attempts /\ objs[o].attempts >= 1
             /\ runs'[r].pc = "sleep_poll"
             /\ runs'[r].wake = now + POLL_INTERVAL_MS
       /\ (/\ runs[r].pc = "sleep_poll" /\ runs'[r].pc # "sleep_poll"
           /\ runs[r].last = "error"
           /\ ~runs'[r].aborted /\ now < runs[r].deadline)
          => /\ runs'[r].pc = "poll"
             /\ objs'[o].status = objs[o].status
             /\ objs'[o].attempts = objs[o].attempts + 1
       /\ (/\ runs[r].pc \in {"poll", "sleep_poll"} /\ runs'[r] # runs[r]
           /\ objs[o].status # "failed" /\ objs'[o].status = "failed")
          => now >= runs[r].deadline]_vars

\* a poll is in flight after the previous poll of the same watch threw
C10_Witness ==
  \E r \in DOMAIN runs :
    /\ runs[r].pc = "poll"
    /\ runs[r].last = "error"
    /\ objs[runs[r].obj].status = "watching"
    /\ objs[runs[r].obj].attempts >= 2

\* the poll cycles the runs of job object o have begun: the polls they have
\* made and the ones they are making
RECURSIVE cyclesUpTo(_, _)
cyclesUpTo(o, n) ==
  IF n = 0 THEN 0
  ELSE cyclesUpTo(o, n - 1)
       + (IF runs[n].obj = o
          THEN runs[n].polls + (IF runs[n].pc = "poll" THEN 1 ELSE 0)
          ELSE 0)

\* C11: a watch that ends without a range found and without a cancellation
\* leaves the job failed, without bookedRange, after at least one poll; the
\* attempts of a job its engine ran for equal the poll cycles begun for it;
\* attempts only ever grows by one, in the step that begins a poll cycle.
C11_AttemptsCountPolls ==
  /\ [](\A o \in DOMAIN objs :
          /\ (\E r \in DOMAIN runs : runs[r].obj = o)
             => objs[o].attempts = cyclesUpTo(o, Len(runs))
          /\ objs[o].message = "no-availability"
             => /\ objs[o].status = "failed" /\ objs[o].bookedRange = None
                /\ objs[o].attempts >= 1)
  /\ [][/\ \A r \in DOMAIN runs :
             (runs[r].pc # "save_timeout" /\ runs'[r].pc = "save_timeout")
             => LET job == objs'[runs[r].obj] IN
                /\ job.status = "failed" /\ job.bookedRange = None
                /\ job.message = "no-availability"
                /\ job.attempts >= 1 /\ runs'[r].polls >= 1
        /\ \A o \in DOMAIN objs :
             objs'[o].attempts # objs[o].attempts
             => /\ objs'[o].attempts = objs[o].attempts + 1
                /\ \E r \in DOMAIN runs :
                     /\ runs[r].obj = o
                     /\ runs[r].pc # "poll" /\ runs'[r].pc = "poll"]_vars

\* the watch deadline has passed after two polls, neither of which found a
\* range
C11_Witness ==
  \E r \in DOMAIN runs :
    /\ runs[r].pc = "save_timeout" /\ ~runs[r].aborted
    /\ runs[r].polls = 2
    /\ objs[runs[r].obj].attempts = 2
    /\ objs[runs[r].obj].status = "failed"

\* C12: no availability poll is issued later than windowOpensAt +
\* MAX_WATCH_DURATION_MS: every step by which a run begins a poll cycle is
\* taken at a time not after that instant.
C12_NoPollAfterWindowDeadline ==
  [][\A r \in DOMAIN runs :
       (runs[r].pc # "poll" /\ runs'[r].pc = "poll")
       => now <= objs[runs[r].obj].window + MAX_WATCH_DURATION_MS]_vars

\* C13: a pre-warm step that fails (launch, sign-in, navigation, setting the
\* group size) with the job not cancelled moves the job from pre-warming to
\* failed with the failure message; the run goes to its catch block and does
\* not go on towards watching.
C13_PreWarmFailureFails ==
  [][\A r \in DOMAIN runs :
       LET o == runs[r].obj IN
       /\ (/\ runs[r].pc \in {"launch", "signin", "goto"}
           /\ runs'[r].pc \notin {"launch", "signin", "goto", "groupsize"}
           /\ ~runs'[r].aborted)
          => /\ objs[o].status = "pre-warming"
             /\ objs'[o].status = "failed"
             /\ objs'[o].message \in {"sniper-failed", "sniper-failed-quoting-credentials"}
             /\ runs'[r].pc = "save_catch"
       /\ (/\ runs[r].pc = "groupsize_error" /\ runs'[r].pc # "groupsize_error"
           /\ ~runs'[r].aborted)
          => /\ objs[o].status = "pre-warming"
             /\ objs'[o].status = "failed" /\ objs'[o].message = "sniper-failed"
             /\ runs'[r].pc = "save_catch"]_vars

\* C14: when the trigger of a job fires and there are no credentials for it,
\* the job stays pending, no session is opened and only its message changes;
\* no step takes a job from pending to another status than cancelled unless
\* credentials are present for it, and then the status is pre-warming.
C14_PendingWithoutCredentials ==
  [][/\ \A id \in JobIds :
          (/\ TimerFires(id) /\ ~HasCredentials(Cur, id)
           /\ jobs[id] # 0 /\ objs[jobs[id]].status = "pending")
          => LET o == jobs[id] IN
             /\ objs'[o].status = "pending"
             /\ objs'[o] = [objs[o] EXCEPT !.message = objs'[o].message]
             /\ sessions' = sessions /\ runs' = runs
     /\ \A o \in DOMAIN objs :
          (objs[o].status = "pending" /\ objs'[o].status \notin {"pending", "cancelled"})
          => /\ IF build = "env" THEN envCreds ELSE credentials'[objs[o].id]
             /\ objs'[o].status = "pre-warming"]_vars

\* C15: a supplyCredentials call on a pending job whose pre-warm time has
\* come starts the engine before it returns (the status is pre-warming and a
\* run exists); on a pending job whose pre-warm time is ahead it leaves the
\* job pending with exactly one timeout armed, due at that time.
C15_SupplyStartsOrArms ==
  [][\A id \in JobIds :
       (SupplyCredentials(id) /\ objs[jobs[id]].status = "pending")
       => LET o == jobs[id]
              preWarmTime == objs[o].window - PRE_WARM_LEAD_MS
          IN IF preWarmTime <= now
             THEN /\ objs'[o].status = "pre-warming"
                  /\ Len(runs') = Len(runs) + 1
                  /\ runs'[Len(runs')].obj = o
                  /\ armedFor(id)' = {}
             ELSE /\ objs'[o].status = "pending"
                  /\ runs' = runs
                  /\ Cardinality(armedFor(id)') = 1
                  /\ \A h \in armedFor(id)' : timeouts'[h].due = preWarmTime]_vars

\* C16: the engine of a job never starts before windowOpensAt -
\* PRE_WARM_LEAD_MS; the scheduleJob call that ends createJob arms a timeout
\* due at exactly that time when it is ahead, and starts the engine in the
\* same step when it is not (credentials being there).
C16_NoEngineBeforePreWarm ==
  [][/\ \A o \in DOMAIN objs :
          (objs[o].status = "pending" /\ objs'[o].status = "pre-warming")
          => now >= objs[o].window - PRE_WARM_LEAD_MS
     /\ \A id \in JobIds :
          (createCall[id].pc = "save" /\ createCall'[id].pc = "done")
          => LET o == createCall[id].obj
                 preWarmTime == objs[o].window - PRE_WARM_LEAD_MS
             IN IF preWarmTime > now
                THEN /\ runs' = runs
                     /\ Len(timeouts') = Len(timeouts) + 1
                     /\ timeouts'[Len(timeouts')] =
                          [live |-> TRUE, fired |-> FALSE, due |-> preWarmTime, obj |-> o]
                ELSE HasCredentials(Cur, id)
                     => /\ Len(runs') = Len(runs) + 1
                        /\ objs'[o].status = "pre-warming"]_vars

\* C17: whatever scheduleJob calls were made for a job id, at most one
\* timeout is armed for it, that one is the handle the timers map holds and
\* the latest created for the id (every earlier one was cleared or has
\* fired), and the timeouts created for the id have started the engine at
\* most once in total.
C17_OneArmedTrigger ==
  \A id \in JobIds :
    /\ Cardinality(armedFor(id)) <= 1
    /\ \A h \in armedFor(id) :
         /\ timers[id] = h
         /\ \A g \in DOMAIN timeouts :
              objs[timeouts[g].obj].id = id => g <= h
    /\ Cardinality({h \in DOMAIN timeouts :
                      timeouts[h].fired /\ objs[timeouts[h].obj].id = id}) <= 1

C19_RearmedAtStartup ==
  [][/\ LoadJobs
        => \A id \in JobIds :
             (/\ disk[id] # None /\ disk[id].status = "pending"
              /\ disk[id].window + MAX_WATCH_DURATION_MS > now)
             => LET o == jobs'[id] IN
                IF HasCredentials(Cur, id)
                THEN \/ armedFor(id)' # {}
                     \/ \E r \in DOMAIN runs' : runs'[r].obj = o
                ELSE /\ objs'[o].status = "pending"
                     /\ armedFor(id)' = {}
                     /\ runs' = runs
     /\ \A id \in JobIds :
          (/\ jobs[id] # 0 /\ objs[jobs[id]].message = "awaiting-credentials")
          => LET o == jobs[id] IN
             /\ objs[o].status = "pending" /\ armedFor(id) = {}
             /\ (objs'[o] # objs[o] \/ armedFor(id)' # {})
                => \/ objs'[o].status = "cancelled"
                   \/ /\ SupplyCredentials(id)
                      /\ \/ armedFor(id)' # {}
                         \/ \E r \in DOMAIN runs' : runs'[r].obj = o]_vars

\* C20: a job whose status is watching or booking has now >= windowOpensAt,
\* and no run is polling or claiming with now < windowOpensAt.
C20_WatchingAfterWindow ==
  /\ \A o \in DOMAIN objs :
       objs[o].status \in {"watching", "booking"} => now >= objs[o].window
  /\ \A r \in DOMAIN runs :
       runs[r].pc \in {"poll", "claim"} => now >= objs[runs[r].obj].window

\* C21: the suspensions of a job end when it is cancelled: the cancelJob
\* step leaves no timeout armed for the id, and no run whose signal is
\* aborted is inside sleep with its delay still running, whether the abort
\* came during the sleep or before it was entered.
C21_SuspensionsEndAtCancel ==
  /\ [][\A id \in JobIds :
          (cancelCall[id].pc = "idle" /\ cancelCall'[id].pc # "idle")
          => armedFor(id)' = {}]_vars
  /\ [](\A r \in DOMAIN runs :
          (runs[r].aborted /\ runs[r].pc \in {"sleep_window", "sleep_poll"})
          => now >= runs[r].wake)

\* C22: the step in which cancelJob's write completes stores the job as
\* cancelled, and from the return of cancelJob on no timeout is armed for
\* the id, no abort controller is registered for it and no credentials are
\* held for it.
C22_CancelReleasesAll ==
  /\ [][\A id \in JobIds :
          (/\ cancelCall[id].pc = "save" /\ cancelCall'[id].pc # "save"
           /\ disk' = saveJobs(Cur).disk)
          => /\ disk'[id] # None
             /\ disk'[id].status = "cancelled"]_vars
  /\ [](\A id \in JobIds :
          (cancelCall[id].pc = "done" /\ ~cancelCall[id].del)
          => /\ armedFor(id) = {}
             /\ abortControllers[id] = 0
             /\ ~credentials[id])

\* C23: a saveJobs call that fails does not change what its caller does
\* next: createJob completes (the job is scheduled and returned), a run at
\* one of its saves goes on to its next phase and not to the catch block,
\* cancelJob completes and deleteJob goes on to delete the job.
C23_SaveFailureNotFatal ==
  [][/\ \A id \in JobIds :
          (createCall[id].pc = "save" /\ createCall'[id].pc # "save")
          => createCall'[id].pc = "done"
     /\ \A r \in DOMAIN runs :
          (/\ runs[r].pc \in {"save_prewarm", "save_watching", "save_booking",
                              "save_timeout", "save_incart", "save_allfailed"}
           /\ runs'[r].pc # runs[r].pc)
          => /\ runs'[r].pc # "save_catch"
             /\ objs'[runs[r].obj].status = objs[runs[r].obj].status
     /\ \A id \in JobIds :
          (cancelCall[id].pc = "save" /\ cancelCall'[id].pc # "save")
          => IF cancelCall[id].del
             THEN cancelCall'[id].pc = "delete_save" /\ jobs'[id] = 0
             ELSE cancelCall'[id].pc = "done"]_vars

\* an await saveJobs() is pending in some operation: its write, when it
\* completes, stores the job table as it then is
savePending ==
  \/ loaded = "saving"
  \/ \E id \in JobIds : createCall[id].pc = "save"
  \/ \E id \in JobIds : cancelCall[id].pc \in {"save", "delete_save"}
  \/ \E r \in DOMAIN runs :
       runs[r].pc \in {"save_prewarm", "save_watching", "save_booking",
                       "save_timeout", "save_incart", "save_allfailed",
                       "save_catch"}

\* C24: every step that changes the status of a job leaves a saveJobs call
\* pending, issued by the code that made the change before it ends.
C24_StatusChangeSaved ==
  [][\A o \in DOMAIN objs :
       objs'[o].status # objs[o].status => savePending']_vars

\* C25: neither a job record, the content of every snapshot broadcast to the
\* subscribers or returned by getJob, getJobs and createJob, nor the persisted
\* snapshot has an email or password field or a text made from the
\* credentials, so that these contents are the same whatever credentials
\* were supplied.
C25_NoCredentialsInSnapshots ==
  /\ \A o \in DOMAIN objs :
       /\ DOMAIN objs[o] \cap {"email", "password"} = {}
       /\ objs[o].message # "sniper-failed-quoting-credentials"
  /\ \A id \in JobIds :
       disk[id] # None
       => /\ DOMAIN disk[id] \cap {"email", "password"} = {}
          /\ disk[id].message # "sniper-failed-quoting-credentials"

\* C26: the snapshots a callback has received are, in order, those of the
\* updateJob calls made while it was subscribed, one for each call, whether
\* or not it or a callback before it threw; and the job keeps what the last
\* updateJob call assigned.
C26_EverySubscriberOnce ==
  /\ \A cb \in Callbacks :
       LET mine == SelectSeq(updates, LAMBDA u : \E i \in DOMAIN u.subs : u.subs[i] = cb)
       IN /\ Len(received[cb]) = Len(mine)
          /\ \A k \in DOMAIN mine :
               /\ received[cb][k].id = objs[mine[k].obj].id
               /\ received[cb][k].status = mine[k].status
               /\ received[cb][k].message = mine[k].status
  /\ updates # <<>>
       => LET u == updates[Len(updates)]
          IN objs[u.obj].status = u.status /\ objs[u.obj].message = u.status

\* an update whose first callback threw and whose second callback received
\* the snapshot, then an update after the first callback unsubscribed
C26_Witness ==
  /\ Len(updates) = 2
  /\ updates[1].subs = <<1, 2>> /\ 1 \in updates[1].throws
  /\ updates[2].subs = <<2>>
  /\ Len(received[1]) = 1 /\ Len(received[2]) = 2

C28_TerminalStatusesFinal ==
  [][\A o \in DOMAIN objs :
       /\ objs[o].status \in {"in-cart", "failed"} => objs'[o].status = objs[o].status
       /\ (objs'[o].status = "cancelled" /\ objs[o].status # "cancelled")
          => objs[o].status \in {"pending", "pre-warming", "watching", "booking"}]_vars

\* C29: the bookedRange of a job is none or one of its desired ranges; it
\* changes only in the step in which a claim attempt of the job's engine
\* reports success, to the range that attempt was made on; and a step in
\* which a claim attempt fails leaves it none.
C29_BookedRangeIsClaimed ==
  /\ [](\A o \in DOMAIN objs :
          \/ objs[o].bookedRange = None
          \/ \E i \in DOMAIN objs[o].ranges : objs[o].bookedRange = objs[o].ranges[i])
  /\ [][\A o \in DOMAIN objs :
         objs'[o].bookedRange # objs[o].bookedRange
         => \E r \in DOMAIN runs :
              /\ runs[r].obj = o /\ runs[r].pc = "claim_post"
              /\ runs'[r].tried[runs[r].target] = "booked"
              /\ objs'[o].bookedRange = objs[o].ranges[runs[r].target]]_vars
  /\ [][\A r \in DOMAIN runs :
         (\E i \in DOMAIN runs[r].tried :
            runs[r].tried[i] # "failed" /\ runs'[r].tried[i] = "failed")
         => objs'[runs[r].obj].bookedRange = None]_vars

\* the first range was found and its claim failed, the claim of the second
\* range reported success: the job is in-cart with the second range
C29_Witness ==
  \E r \in DOMAIN runs :
    LET o == runs[r].obj IN
    /\ runs[r].pc = "save_incart"
    /\ runs[r].found = 1 /\ runs[r].tried[1] = "failed"
    /\ runs[r].target = 2 /\ runs[r].tried[2] = "booked"
    /\ objs[o].bookedRange = objs[o].ranges[2]
    /\ objs[o].ranges[2] # objs[o].ranges[1]

\* C30: a creation request without permitId, without windowOpensAt, without
\* a non-empty desiredDateRanges, with a range that lacks its start or end
\* date, with a range whose end is not after its start, or without
\* credentials is answered with an error, and the job store, the timeouts,
\* the engine runs and the persisted snapshot are as before the request.
C30_InvalidRequestRejected ==
  LET body == post.body
      invalid ==
        \/ ~body.permitId
        \/ body.window = 0
        \/ body.ranges = <<>>
        \/ \E i \in DOMAIN body.ranges : body.ranges[i][1] = 0 \/ body.ranges[i][2] = 0
        \/ \E i \in DOMAIN body.ranges : body.ranges[i][2] <= body.ranges[i][1]
        \/ ~body.credentials
  IN (post.status # 0 /\ invalid)
     => /\ post.status \in {400, 500}
        /\ objs = <<>>
        /\ \A id \in JobIds : jobs[id] = 0 /\ timers[id] = 0 /\ disk[id] = None
        /\ timeouts = <<>>
        /\ runs = <<>>

\* ------------------------------------------- one engine followed to its end
\* A pending job with two desired ranges, written by a previous process
\* (createJob, sniper.ts:140-167, then saveJobs)
livePersisted(window) ==
  [persisted("pending", window) EXCEPT !.ranges = <<RangeA, RangeB>>]

\* The process starts with SNIPER credentials in its environment and finds
\* the snapshot of one pending job whose window has opened, opens soon or
\* opens later.
InitLive ==
  /\ now = 0
  /\ build = "env"
  /\ envCreds = TRUE
  /\ objs = <<>>
  /\ jobs = [id \in JobIds |-> 0]
  /\ timers = [id \in JobIds |-> 0]
  /\ timeouts = <<>>
  /\ browsers = [id \in JobIds |-> 0]
  /\ abortControllers = [id \in JobIds |-> 0]
  /\ credentials = [id \in JobIds |-> FALSE]
  /\ \E wd \in {-2, 1, 3} :
       disk = [id \in JobIds |-> IF id = 1 THEN livePersisted(wd) ELSE None]
  /\ sessions = <<>>
  /\ runs = <<>>
  /\ createCall = [id \in JobIds |-> [pc |-> "none", obj |-> 0]]
  /\ cancelCall = [id \in JobIds |-> [pc |-> "idle", obj |-> 0, del |-> FALSE,
                                       from |-> "", run |-> 0]]
  /\ loaded = "no"
  /\ createResult = [id \in JobIds |-> None]
  /\ query = NoQuery
  /\ supplied = [id \in JobIds |-> FALSE]
  /\ NoFeed
  /\ post = NoPost
  /\ share = NoShare
  /\ writes = NoWrites

\* the clock, which does not stop while a timer of setTimeout (scheduleJob,
\* sniper.ts:268-297; sleep, sniper.ts:1046-1058) is armed and not yet due
TickLive ==
  /\ WithinRuns
  /\ objs # <<>>
  /\ ClockRead
  /\ \/ now < MaxTime
     \/ \E h \in DOMAIN timeouts : timeouts[h].live /\ now < timeouts[h].due
     \/ \E r \in DOMAIN runs :
          runs[r].pc \in {"sleep_window", "sleep_poll"} /\ now < runs[r].wake
  /\ now' = now + 1
  /\ UNCHANGED <<build, envCreds, objs, jobs, timers, timeouts, browsers, abortControllers,
                 credentials, disk, sessions, runs, createCall, cancelCall,
                 loaded, createResult, query, supplied, feed, post, share, writes>>

\* the steps of run r that wait for the file system, for a timer or for the
\* browser (Playwright calls of runSniperJob, signIn, setGroupSize and
\* attemptBrowserBooking)
BoundedStep(r) ==
  \/ SavedPreWarm(r)
  \/ GroupSizeErrorLogged(r)
  \/ WindowOpens(r)
  \/ SleepAborted(r)
  \/ SavedWatching(r)
  \/ PollSleepOver(r)
  \/ SavedFinal(r)
  \/ SavedBooking(r)
  \/ SavedCatch(r)
  \/ Launch(r)
  \/ SignIn(r)
  \/ Navigate(r)
  \/ SetGroupSize(r)
  \/ ClaimAttempt(r)
  \/ ClaimReturns(r)
  \/ FinallyClosed(r)

\* the steps of run r that wait for fetch in checkAvailability
\* (sniper.ts:542-554)
QueryStep(r) ==
  \/ Poll(r)
  \/ FallbackCheck(r)

NextLive ==
  \/ TickLive
  \/ LoadJobs
  \/ LoadSaved
  \/ \E id \in JobIds : TimerFires(id)
  \/ \E id \in JobIds : CancelJob(id, FALSE)
  \/ \E id \in JobIds : CancelClosed(id)
  \/ \E id \in JobIds : CancelSaved(id)
  \/ \E r \in DOMAIN runs : SavedPreWarm(r)
  \/ \E r \in DOMAIN runs : Launch(r)
  \/ \E r \in DOMAIN runs : SignIn(r)
  \/ \E r \in DOMAIN runs : Navigate(r)
  \/ \E r \in DOMAIN runs : SetGroupSize(r)
  \/ \E r \in DOMAIN runs : GroupSizeErrorLogged(r)
  \/ \E r \in DOMAIN runs : WindowOpens(r)
  \/ \E r \in DOMAIN runs : SleepAborted(r)
  \/ \E r \in DOMAIN runs : SavedWatching(r)
  \/ \E r \in DOMAIN runs : Poll(r)
  \/ \E r \in DOMAIN runs : PollSleepOver(r)
  \/ \E r \in DOMAIN runs : SavedFinal(r)
  \/ \E r \in DOMAIN runs : SavedBooking(r)
  \/ \E r \in DOMAIN runs : ClaimAttempt(r)
  \/ \E r \in DOMAIN runs : ClaimReturns(r)
  \/ \E r \in DOMAIN runs : FallbackCheck(r)
  \/ \E r \in DOMAIN runs : SavedCatch(r)
  \/ \E r \in DOMAIN runs : FinallyClosed(r)

\* What the event loop guarantees: time passes, timers that are due fire,
\* file operations complete, and the browser calls, which Playwright bounds
\* with a timeout, return.
LoopFairness ==
  /\ WF_vars(TickLive)
  /\ WF_vars(LoadJobs)
  /\ WF_vars(LoadSaved)
  /\ WF_vars(\E id \in JobIds : TimerFires(id))
  /\ WF_vars(\E id \in JobIds : CancelClosed(id))
  /\ WF_vars(\E id \in JobIds : CancelSaved(id))
  /\ WF_vars(\E r \in DOMAIN runs : BoundedStep(r))

\* fetch is called without a timeout and without a signal (sniper.ts:542-545):
\* nothing makes it return
SpecHang == InitLive /\ [][NextLive]_vars /\ LoopFairness

\* every external call returns
SpecLive ==
  InitLive /\ [][NextLive]_vars /\ LoopFairness
    /\ WF_vars(\E r \in DOMAIN runs : QueryStep(r))

\* C31: a job that is pre-warming, watching or booking reaches a terminal
\* status (in-cart, failed or cancelled) even when an availability query
\* never returns: the call is abandoned after a bounded time.
C31_HungCallAbandoned ==
  (jobs[1] # 0 /\ objs[jobs[1]].status \in {"pre-warming", "watching", "booking"})
    ~> (jobs[1] # 0 /\ objs[jobs[1]].status \in Terminal)

\* C39: a job whose engine has started with credentials present reaches a
\* terminal status (in-cart, failed or cancelled) when every external call
\* returns, timers fire and the process keeps running; and while the job is
\* watching the clock is never past the watch deadline plus one poll cycle.
C39_EngineTerminates ==
  /\ (runs # <<>>) ~> (jobs[1] # 0 /\ objs[jobs[1]].status \in Terminal)
  /\ [](\A r \in DOMAIN runs :
          (objs[runs[r].obj].status = "watching" /\ runs[r].deadline > 0)
            => now <= runs[r].deadline + POLL_INTERVAL_MS)

\* --------------------------------------------- expandRange called on its own
MaxExpandCalls == 3
MaxStay == 5

\* n written with the given number of decimal digits (padStart in
\* Date.prototype.toISOString)
Digits(n, width) ==
  [i \in 1..width |-> (n \div (10 ^ (width - i))) % 10]

\* A Date is held as its UTC calendar fields <<year, month, day>>; the
\* strings "YYYY-MM-DD" are sequences of ten characters, the digits as
\* numbers. new Date(s + "T00:00:00.000Z") at sniper.ts:510-511
parseDate(s) ==
  <<s[1] * 1000 + s[2] * 100 + s[3] * 10 + s[4], s[6] * 10 + s[7], s[9] * 10 + s[10]>>

\* current.toISOString().substring(0, 10) at sniper.ts:513
toISODate(d) ==
  Digits(d[1], 4) \o <<"-">> \o Digits(d[2], 2) \o <<"-">> \o Digits(d[3], 2)

DaysInMonth(y, m) ==
  IF m = 2 THEN (IF (y % 4 = 0 /\ y % 100 # 0) \/ y % 400 = 0 THEN 29 ELSE 28)
  ELSE IF m \in {4, 6, 9, 11} THEN 30 ELSE 31

RECURSIVE DaysBeforeMonth(_, _)
DaysBeforeMonth(y, m) ==
  IF m = 1 THEN 0 ELSE DaysBeforeMonth(y, m - 1) + DaysInMonth(y, m - 1)

\* the time value of a Date at midnight UTC, in days (what current < end
\* compares at sniper.ts:512)
getTime(d) ==
  365 * (d[1] - 1) + ((d[1] - 1) \div 4) - ((d[1] - 1) \div 100)
    + ((d[1] - 1) \div 400) + DaysBeforeMonth(d[1], d[2]) + d[3]

\* setUTCDate with a day past the end of the month, which carries nothing
\* over
setUTCDateNoCarry(d, day) ==
  <<d[1], d[2], day>>

\* current.setUTCDate(day) at sniper.ts:514: a day past the end of the month
\* carries over into the following months
RECURSIVE setUTCDate(_, _)
setUTCDate(d, day) ==
  IF day <= DaysInMonth(d[1], d[2]) THEN <<d[1], d[2], day>>
  ELSE setUTCDate(IF d[2] = 12 THEN <<d[1] + 1, 1, 1>> ELSE <<d[1], d[2] + 1, 1>>,
                  day - DaysInMonth(d[1], d[2]))

\* the while loop of expandRange (sniper.ts:512-515)
RECURSIVE expandFrom(_, _)
expandFrom(current, end) ==
  IF getTime(current) < getTime(end)
  THEN <<toISODate(current)>> \o expandFrom(setUTCDate(current, current[3] + 1), end)
  ELSE <<>>

\* expandRange(range) (sniper.ts:508-517) on the date strings themselves: the
\* range is only read
expandRangeISO(range) ==
  expandFrom(parseDate(range.startDate), parseDate(range.endDate))

\* calendar dates around the ends of months and years, leap and not
ExpandDays ==
  {<<2023, 2, 26>>, <<2023, 2, 27>>, <<2023, 2, 28>>, <<2023, 3, 1>>, <<2023, 3, 2>>,
   <<2023, 12, 29>>, <<2023, 12, 30>>, <<2023, 12, 31>>, <<2024, 1, 1>>, <<2024, 1, 2>>,
   <<2024, 2, 27>>, <<2024, 2, 28>>, <<2024, 2, 29>>, <<2024, 3, 1>>, <<2024, 3, 2>>,
   <<2024, 4, 29>>, <<2024, 4, 30>>, <<2024, 5, 1>>, <<2024, 5, 2>>,
   <<2100, 2, 27>>, <<2100, 2, 28>>, <<2100, 3, 1>>}

\* the date ranges the route admits: endDate > startDate as strings, which
\* for "YYYY-MM-DD" is the order of the dates (routes/sniper.ts:23-45); stays
\* of at most MaxStay nights
ExpandRanges ==
  {rg \in [startDate : {toISODate(d) : d \in ExpandDays},
           endDate : {toISODate(d) : d \in ExpandDays}] :
     /\ getTime(parseDate(rg.startDate)) < getTime(parseDate(rg.endDate))
     /\ getTime(parseDate(rg.endDate)) - getTime(parseDate(rg.startDate)) <= MaxStay}

InitExpand ==
  /\ now = 0
  /\ build = "env"
  /\ envCreds = TRUE
  /\ objs = <<>>
  /\ jobs = [id \in JobIds |-> 0]
  /\ timers = [id \in JobIds |-> 0]
  /\ timeouts = <<>>
  /\ browsers = [id \in JobIds |-> 0]
  /\ abortControllers = [id \in JobIds |-> 0]
  /\ credentials = [id \in JobIds |-> FALSE]
  /\ disk = [id \in JobIds |-> None]
  /\ sessions = <<>>
  /\ runs = <<>>
  /\ createCall = [id \in JobIds |-> [pc |-> "none", obj |-> 0]]
  /\ cancelCall = [id \in JobIds |-> [pc |-> "idle", obj |-> 0, del |-> FALSE,
                                       from |-> "", run |-> 0]]
  /\ loaded = "no"
  /\ createResult = [id \in JobIds |-> None]
  /\ \E rg \in ExpandRanges : query = [given |-> rg, range |-> rg, dates |-> <<>>]
  /\ supplied = [id \in JobIds |-> FALSE]
  /\ NoFeed
  /\ post = NoPost
  /\ share = NoShare
  /\ writes = NoWrites

\* one call of expandRange(query.range); query.dates lists what the calls
\* returned
Expand ==
  /\ Len(query.dates) < MaxExpandCalls
  /\ query' = [query EXCEPT !.dates = Append(@, expandRangeISO(query.range))]
  /\ UNCHANGED <<now, build, envCreds, objs, jobs, timers, timeouts, browsers,
                 abortControllers, credentials, disk, sessions, runs, createCall,
                 cancelCall, loaded, createResult, supplied, feed, post, share, writes>>

SpecExpand == InitExpand /\ [][Expand]_vars

\* C32: for a range with start before end, every call of expandRange returns
\* (end - start) calendar dates, the first one the start date, each the day
\* after the one before, the end date excluded; repeated calls return the
\* same list and the range is as it was given.
C32_ExpandRangeDates ==
  LET first == getTime(parseDate(query.given.startDate))
      last == getTime(parseDate(query.given.endDate))
  IN /\ query.range = query.given
     /\ \A c \in DOMAIN query.dates :
          LET dates == query.dates[c] IN
          /\ Len(dates) = last - first
          /\ dates[1] = query.given.startDate
          /\ \A i \in DOMAIN dates :
               LET d == parseDate(dates[i]) IN
               /\ d[2] \in 1..12 /\ d[3] \in 1..DaysInMonth(d[1], d[2])
               /\ toISODate(d) = dates[i]
               /\ getTime(d) = first + i - 1
          /\ dates = query.dates[1]

\* expandRange has been called twice on a range that spans the end of
\* February of a leap year and has returned more than one date
C32_Witness ==
  /\ Len(query.dates) = 2
  /\ query.given.startDate = toISODate(<<2024, 2, 28>>)
  /\ query.given.endDate = toISODate(<<2024, 3, 1>>)
  /\ query.dates[2] = <<toISODate(<<2024, 2, 28>>), toISODate(<<2024, 2, 29>>)>>

\* ------------------------------------------- the objects that are handed out
MaxHanded == 2
MaxEdits == 2

\* share.arrays and share.ranges are the heap of the arrays and of the
\* DateRange objects; a job record and the records handed out hold
\* desiredDateRanges as the address of an array, whose elements are the
\* addresses of DateRange objects, and bookedRange as the address of a
\* DateRange object, 0 for null.
\* { ...job } (sniper.ts:105, 132, 137, 164, 166): a new object with the
\* fields of job, the addresses among them
spread(job) == job

\* what a reader of the record rec sees through its addresses
view(sh, rec) ==
  [status |-> rec.status, attempts |-> rec.attempts,
   desiredDateRanges |->
     IF rec.desiredDateRanges = 0 THEN <<>>
     ELSE [i \in DOMAIN sh.arrays[rec.desiredDateRanges] |->
             sh.ranges[sh.arrays[rec.desiredDateRanges][i]]],
   bookedRange |-> IF rec.bookedRange = 0 THEN None ELSE sh.ranges[rec.bookedRange]]

\* the body of a creation request as express.json() leaves it: one array
\* with its DateRange objects
InitShare ==
  /\ now = 0
  /\ build = "env"
  /\ envCreds = TRUE
  /\ objs = <<>>
  /\ jobs = [id \in JobIds |-> 0]
  /\ timers = [id \in JobIds |-> 0]
  /\ timeouts = <<>>
  /\ browsers = [id \in JobIds |-> 0]
  /\ abortControllers = [id \in JobIds |-> 0]
  /\ credentials = [id \in JobIds |-> FALSE]
  /\ disk = [id \in JobIds |-> None]
  /\ sessions = <<>>
  /\ runs = <<>>
  /\ createCall = [id \in JobIds |-> [pc |-> "none", obj |-> 0]]
  /\ cancelCall = [id \in JobIds |-> [pc |-> "idle", obj |-> 0, del |-> FALSE,
                                       from |-> "", run |-> 0]]
  /\ loaded = "no"
  /\ createResult = [id \in JobIds |-> None]
  /\ query = NoQuery
  /\ supplied = [id \in JobIds |-> FALSE]
  /\ NoFeed
  /\ post = NoPost
  /\ writes = NoWrites
  /\ \E req \in {<<RangeA>>, <<RangeB, RangeA>>} :
       share = [NoShare EXCEPT !.arrays = <<[i \in DOMAIN req |-> i]>>,
                               !.ranges = req]

\* one more record handed out, while the model follows them
hand(handed, rec) ==
  IF Len(handed) < MaxHanded THEN Append(handed, rec) ELSE handed

\* createJob(req) (sniper.ts:140-167): the job takes req.desiredDateRanges as
\* it is; notify and the caller get { ...job }
ShareCreate ==
  /\ share.job = <<>>
  /\ LET job == [status |-> "pending", attempts |-> 0,
                 desiredDateRanges |-> 1, bookedRange |-> 0]
     IN share' = [share EXCEPT !.job = job,
                               !.handed = hand(@, spread(job)),
                               !.last = "create"]
  /\ UNCHANGED <<now, build, envCreds, objs, jobs, timers, timeouts, browsers,
                 abortControllers, credentials, disk, sessions, runs, createCall,
                 cancelCall, loaded, createResult, query, supplied, feed, post, writes>>

\* getJob(id) and getJobs() (sniper.ts:131-138)
ShareGet ==
  /\ share.job # <<>>
  /\ Len(share.handed) < MaxHanded
  /\ share' = [share EXCEPT !.handed = hand(@, spread(share.job)), !.last = "get"]
  /\ UNCHANGED <<now, build, envCreds, objs, jobs, timers, timeouts, browsers,
                 abortControllers, credentials, disk, sessions, runs, createCall,
                 cancelCall, loaded, createResult, query, supplied, feed, post, writes>>

\* the statuses the engine passes through with updateJob
\* (sniper.ts:316-320, 368-371, 417-420, 427-431, 406-414)
ShareNext(status) ==
  CASE status = "pending" -> {"pre-warming"}
    [] status = "pre-warming" -> {"watching"}
    [] status = "watching" -> {"booking", "failed"}
    [] status = "booking" -> {"in-cart", "failed"}
    [] OTHER -> {}

\* updateJob(job, updates) (sniper.ts:103-106): Object.assign on the live
\* record, then notify({ ...job }), which hands the copy to a subscriber when
\* one is connected; job.attempts++ (sniper.ts:378) goes with the step to
\* booking, and bookedRange: foundRange (sniper.ts:429) is an element of
\* job.desiredDateRanges (checkAvailability returns the range it was given,
\* sniper.ts:579-583)
ShareUpdate ==
  /\ share.job # <<>>
  /\ \E status \in ShareNext(share.job.status), connected \in BOOLEAN,
        k \in DOMAIN share.arrays[1] :
       LET job == [share.job EXCEPT
                     !.status = status,
                     !.attempts = IF status = "booking" THEN @ + 1 ELSE @,
                     !.bookedRange = IF status = "in-cart"
                                     THEN share.arrays[share.job.desiredDateRanges][k]
                                     ELSE @]
       IN share' = [share EXCEPT
                      !.job = job,
                      !.handed = IF connected THEN hand(@, spread(job)) ELSE @,
                      !.last = "update"]
  /\ UNCHANGED <<now, build, envCreds, objs, jobs, timers, timeouts, browsers,
                 abortControllers, credentials, disk, sessions, runs, createCall,
                 cancelCall, loaded, createResult, query, supplied, feed, post, writes>>

\* the holder of the record handed out as number s (a route handler, a
\* subscriber) modifies it: a field of the record, the length of its
\* desiredDateRanges, a date of one of its ranges or of its bookedRange
ShareEdit(s) ==
  /\ s \in DOMAIN share.handed
  /\ share.edits < MaxEdits
  /\ LET rec == share.handed[s]
         a == rec.desiredDateRanges
     IN \E what \in {"status", "pop", "range", "booked"} :
          /\ what = "booked" => rec.bookedRange # 0
          /\ what \in {"pop", "range"} => a # 0 /\ share.arrays[a] # <<>>
          /\ share' =
               [share EXCEPT
                  !.handed[s].status = IF what = "status" THEN "edited" ELSE @,
                  !.arrays = IF what = "pop"
                             THEN [@ EXCEPT ![a] = SubSeq(@, 1, Len(@) - 1)]
                             ELSE @,
                  !.ranges = IF what = "range"
                             THEN [@ EXCEPT ![share.arrays[a][1]] = RangeC]
                             ELSE IF what = "booked"
                             THEN [@ EXCEPT ![rec.bookedRange] = RangeC]
                             ELSE @,
                  !.edits = @ + 1,
                  !.last = "edit"]
  /\ UNCHANGED <<now, build, envCreds, objs, jobs, timers, timeouts, browsers,
                 abortControllers, credentials, disk, sessions, runs, createCall,
                 cancelCall, loaded, createResult, query, supplied, feed, post, writes>>

NextShare ==
  \/ ShareCreate
  \/ ShareGet
  \/ ShareUpdate
  \/ \E s \in 1..MaxHanded : ShareEdit(s)

SpecShare == InitShare /\ [][NextShare]_vars

\* C33: a record handed out by getJob, getJobs, createJob or notify shares
\* nothing with the live job: a step that modifies a record handed out,
\* its desiredDateRanges and bookedRange included, leaves the live job as
\* it was, and a step of the live job leaves every record handed out as it
\* was.
C33_SnapshotsIndependent ==
  [][/\ (share'.edits # share.edits /\ share.job # <<>>)
          => view(share', share'.job) = view(share, share.job)
     /\ share'.last = "update"
          => \A s \in DOMAIN share.handed :
               view(share', share'.handed[s]) = view(share, share.handed[s])]_vars

\* ------------------------------------------------------ the DELETE route
\* The process starts with credentials in its environment and an empty
\* snapshot, the snapshot of one pending job with two ranges, or the snapshot
\* of a job that is in the cart; one DELETE /:id request will be sent, for
\* the id of that job or for another id.
InitDelete ==
  /\ now = 0
  /\ build = "env"
  /\ envCreds = TRUE
  /\ objs = <<>>
  /\ jobs = [id \in JobIds |-> 0]
  /\ timers = [id \in JobIds |-> 0]
  /\ timeouts = <<>>
  /\ browsers = [id \in JobIds |-> 0]
  /\ abortControllers = [id \in JobIds |-> 0]
  /\ credentials = [id \in JobIds |-> FALSE]
  /\ \E dj \in {None, persisted("in-cart", -1)} \cup {livePersisted(wd) : wd \in {-2, 1, 3}} :
       disk = [id \in JobIds |-> IF id = 1 THEN dj ELSE None]
  /\ sessions = <<>>
  /\ runs = <<>>
  /\ createCall = [id \in JobIds |-> [pc |-> "none", obj |-> 0]]
  /\ cancelCall = [id \in JobIds |-> [pc |-> "idle", obj |-> 0, del |-> FALSE,
                                       from |-> "", run |-> 0]]
  /\ loaded = "no"
  /\ createResult = [id \in JobIds |-> None]
  /\ query = NoQuery
  /\ supplied = [id \in JobIds |-> FALSE]
  /\ NoFeed
  /\ post \in [id : JobIds, pc : {"sent"}, obj : {0}, found : {FALSE},
               result : {"none"}, status : {0}]
  /\ share = NoShare
  /\ writes = NoWrites

\* sniperRoutes.delete("/:id") calls deleteJob(id), which calls cancelJob(id)
\* (routes/sniper.ts:111-112, sniper.ts:203-204, 169-191): cancelJob returns
\* false at once for an id that is not in the map, and deleteJob goes on to
\* jobs.delete(id) and await saveJobs()
DeleteRoute ==
  /\ WithinRuns
  /\ loaded = "done"
  /\ post.pc = "sent"
  /\ LET id == post.id IN
     IF jobs[id] = 0
     THEN /\ Commit(Cur)
          /\ post' = [post EXCEPT !.pc = "delete_save"]
     ELSE /\ Commit(cancelJob(Cur, id))
          /\ post' = [post EXCEPT !.pc = IF browsers[id] # 0 THEN "close" ELSE "save",
                                  !.obj = jobs[id], !.found = TRUE]
  /\ UNCHANGED <<now, build, envCreds, createCall, cancelCall, loaded, createResult,
                 query, supplied, feed, share, writes>>

\* await b.browser.close() of cancelJob settles (sniper.ts:191-198)
DeleteClosed ==
  /\ WithinRuns
  /\ post.pc = "close"
  /\ Commit(cancelJobUpdate([Cur EXCEPT !.browsers[post.id] = 0], post.id, post.obj))
  /\ post' = [post EXCEPT !.pc = "save"]
  /\ UNCHANGED <<now, build, envCreds, createCall, cancelCall, loaded, createResult,
                 query, supplied, feed, share, writes>>

\* await saveJobs() of cancelJob settles (sniper.ts:199-200): deleteJob goes
\* on with jobs.delete(id) and the second await saveJobs() (sniper.ts:205-206).
\* When deleteJob rejects, the handler has no try: the request stays
\* unanswered (0) or the framework's error handler answers 500.
DeleteCancelSaved ==
  /\ WithinRuns
  /\ post.pc = "save"
  /\ \E ok \in BOOLEAN, answer \in {0, 500} :
       IF ok
       THEN /\ Commit([saveJobs(Cur) EXCEPT !.jobs[post.id] = 0])
            /\ post' = [post EXCEPT !.pc = "delete_save"]
       ELSE /\ Commit(Cur)
            /\ post' = [post EXCEPT !.pc = "done", !.result = "rejected",
                                    !.status = answer]
  /\ UNCHANGED <<now, build, envCreds, createCall, cancelCall, loaded, createResult,
                 query, supplied, feed, share, writes>>

\* await saveJobs() of deleteJob settles: return true, and the route answers
\* 404 when deleteJob returned false, else { deleted: true }
\* (sniper.ts:206-207, routes/sniper.ts:112-117)
DeleteResponds ==
  /\ WithinRuns
  /\ post.pc = "delete_save"
  /\ \E ok \in BOOLEAN, answer \in {0, 500} :
       IF ok
       THEN /\ Commit(saveJobs(Cur))
            /\ LET result == TRUE
               IN post' = [post EXCEPT !.pc = "done",
                                       !.result = IF result THEN "true" ELSE "false",
                                       !.status = IF ~result THEN 404 ELSE 200]
       ELSE /\ Commit(Cur)
            /\ post' = [post EXCEPT !.pc = "done", !.result = "rejected",
                                    !.status = answer]
  /\ UNCHANGED <<now, build, envCreds, createCall, cancelCall, loaded, createResult,
                 query, supplied, feed, share, writes>>

NextDelete ==
  \/ Tick
  \/ LoadJobs
  \/ LoadSaved
  \/ DeleteRoute
  \/ DeleteClosed
  \/ DeleteCancelSaved
  \/ DeleteResponds
  \/ \E id \in JobIds : TimerFires(id)
  \/ \E r \in DOMAIN runs : SavedPreWarm(r)
  \/ \E r \in DOMAIN runs : Launch(r)
  \/ \E r \in DOMAIN runs : SignIn(r)
  \/ \E r \in DOMAIN runs : Navigate(r)
  \/ \E r \in DOMAIN runs : SetGroupSize(r)
  \/ \E r \in DOMAIN runs : GroupSizeErrorLogged(r)
  \/ \E r \in DOMAIN runs : WindowOpens(r)
  \/ \E r \in DOMAIN runs : SleepAborted(r)
  \/ \E r \in DOMAIN runs : SavedWatching(r)
  \/ \E r \in DOMAIN runs : Poll(r)
  \/ \E r \in DOMAIN runs : PollSleepOver(r)
  \/ \E r \in DOMAIN runs : SavedFinal(r)
  \/ \E r \in DOMAIN runs : SavedBooking(r)
  \/ \E r \in DOMAIN runs : ClaimAttempt(r)
  \/ \E r \in DOMAIN runs : ClaimReturns(r)
  \/ \E r \in DOMAIN runs : FallbackCheck(r)
  \/ \E r \in DOMAIN runs : SavedCatch(r)
  \/ \E r \in DOMAIN runs : FinallyClosed(r)

SpecDelete == InitDelete /\ [][NextDelete]_vars

\* C34: deleteJob(id) for an id that is not in the store returns false, the
\* route answers 404, and the store and the persisted snapshot stay as they
\* were; for an id in the store it returns true, the route answers 200, and
\* when it returns the id is neither in the store nor in the persisted
\* snapshot.
C34_DeleteReportsNotFound ==
  [][(post.pc # "done" /\ post'.pc = "done" /\ post'.result # "rejected")
       => IF post.found
          THEN /\ post'.result = "true" /\ post'.status = 200
               /\ jobs'[post.id] = 0
               /\ disk'[post.id] = None
          ELSE /\ post'.result = "false" /\ post'.status = 404
               /\ jobs' = jobs /\ objs' = objs /\ disk' = disk]_vars

\* C36: once deleteJob(id) has returned, no updateJob is made on that job any
\* more (each updateJob changes status or message and delivers a snapshot of
\* the job to every subscriber), whatever await the job's engine was
\* suspended in when the request came.
C36_NoSnapshotAfterDelete ==
  [][(post.pc = "done" /\ post.found /\ post.result = "true")
       => /\ objs'[post.obj].status = objs[post.obj].status
          /\ objs'[post.obj].message = objs[post.obj].message]_vars

\* C35: once loadAndScheduleJobs has run on the snapshot of a previous
\* process, every job of the store that is pre-warming, watching or booking
\* has an engine run that has not ended: a job persisted in one of these
\* statuses was resumed or moved to a terminal status.
C35_NoOrphanAfterRestart ==
  loaded = "done"
    => \A id \in JobIds :
         (jobs[id] # 0 /\ objs[jobs[id]].status \in {"pre-warming", "watching", "booking"})
           => ActiveRuns(id) # {}

\* C38: in every state, every job of the heap has a bookedRange exactly when
\* its status is in-cart, and a job that is pending has attempts = 0.
C38_BookedIffInCart ==
  \A o \in DOMAIN objs :
    /\ (objs[o].bookedRange # None) <=> (objs[o].status = "in-cart")
    /\ objs[o].status = "pending" => objs[o].attempts = 0

\* two jobs created earlier, in the store and in the file, both pending
InitSave ==
  /\ now = 0
  /\ build = "env"
  /\ envCreds = TRUE
  /\ objs = [o \in JobIds |-> [persisted("pending", MaxTime) EXCEPT !.id = o]]
  /\ jobs = [id \in JobIds |-> id]
  /\ timers = [id \in JobIds |-> 0]
  /\ timeouts = <<>>
  /\ browsers = [id \in JobIds |-> 0]
  /\ abortControllers = [id \in JobIds |-> 0]
  /\ credentials = [id \in JobIds |-> FALSE]
  /\ disk = [id \in JobIds |-> [persisted("pending", MaxTime) EXCEPT !.id = id]]
  /\ sessions = <<>>
  /\ runs = <<>>
  /\ createCall = [id \in JobIds |-> [pc |-> "none", obj |-> 0]]
  /\ cancelCall = [id \in JobIds |-> [pc |-> "idle", obj |-> 0, del |-> FALSE,
                                       from |-> "", run |-> 0]]
  /\ loaded = "done"
  /\ createResult = [id \in JobIds |-> None]
  /\ query = NoQuery
  /\ supplied = [id \in JobIds |-> FALSE]
  /\ NoFeed
  /\ post = NoPost
  /\ share = NoShare
  /\ writes = NoWrites

\* the engine of job id makes its next status change and calls saveJobs()
\* (updateJob then await saveJobs() at sniper.ts:316-322, 368-372, 417-421,
\* 427-432, 408-415); it is suspended until that call settles
SaveIssued(id) ==
  /\ writes[id].pc = "none"
  /\ \E status \in ShareNext(objs[jobs[id]].status) :
       LET o == jobs[id]
           w1 == [Cur EXCEPT
                    !.objs[o].attempts = IF status = "booking" THEN @ + 1 ELSE @,
                    !.objs[o].bookedRange = IF status = "in-cart"
                                            THEN objs[o].ranges[1] ELSE @]
       IN /\ objs' = updateJob(w1, o, status, status).objs
          /\ writes' = [writes EXCEPT ![id].pc = "mkdir"]
  /\ UNCHANGED <<jobs, disk>>
  /\ UNCHANGED <<now, build, envCreds, timers, timeouts, browsers, abortControllers,
                 credentials, sessions, runs, createCall, cancelCall, loaded,
                 createResult, query, supplied, feed, post, share>>

\* await ensureDataDir() settles: saveJobs lists the jobs of the map as they
\* are now, serialises them and calls fs.writeFile (sniper.ts:115-117)
SaveListed(id) ==
  /\ writes[id].pc = "mkdir"
  /\ writes' = [writes EXCEPT ![id] = [pc |-> "write", list |-> saveJobs(Cur).disk]]
  /\ UNCHANGED <<objs, jobs, disk>>
  /\ UNCHANGED <<now, build, envCreds, timers, timeouts, browsers, abortControllers,
                 credentials, sessions, runs, createCall, cancelCall, loaded,
                 createResult, query, supplied, feed, post, share>>

\* fs.writeFile of the call issued by job id completes: the file holds the
\* text that call was given, whichever call was made first (sniper.ts:117)
SaveWritten(id) ==
  /\ writes[id].pc = "write"
  /\ disk' = writes[id].list
  /\ writes' = [writes EXCEPT ![id] = [pc |-> "none", list |-> <<>>]]
  /\ UNCHANGED <<objs, jobs>>
  /\ UNCHANGED <<now, build, envCreds, timers, timeouts, browsers, abortControllers,
                 credentials, sessions, runs, createCall, cancelCall, loaded,
                 createResult, query, supplied, feed, post, share>>

NextSave ==
  \/ \E id \in JobIds : SaveIssued(id)
  \/ \E id \in JobIds : SaveListed(id)
  \/ \E id \in JobIds : SaveWritten(id)

SpecSave == InitSave /\ [][NextSave]_vars

\* C37: whenever no saveJobs call is in flight (every engine is then between
\* steps), the persisted snapshot holds the jobs of the store, each with the
\* status, attempts and bookedRange it has in memory, in whatever order the
\* writes of overlapping calls completed.
C37_SnapshotMatchesStore ==
  (\A id \in JobIds : writes[id].pc = "none")
    => \A id \in JobIds :
         IF jobs[id] = 0 THEN disk[id] = None
         ELSE /\ disk[id] # None
              /\ disk[id].status = objs[jobs[id]].status
              /\ disk[id].attempts = objs[jobs[id]].attempts
              /\ disk[id].bookedRange = objs[jobs[id]].bookedRange

====
